---------------------------- MODULE Spec2Model ----------------------------
(***************************************************************************)
(* A model of factoriocalc: the belt manager (bus scheduler), the bus      *)
(* area of the layouter, the layouter's row loop, the calculator's         *)
(* recursive solver and the step splitter.                                 *)
(*                                                                         *)
(* Conventions.                                                            *)
(*  - Throughputs are exact rationals in the program (fractions.Fraction). *)
(*    The belt manager only adds, subtracts and compares them, so the      *)
(*    model draws them from multiples of 15 and keeps them as integers.    *)
(*  - Python's None in the bus is the record NoLine.                       *)
(*  - The bus is a TLA+ sequence (1-based); every bus index stored in an   *)
(*    event is the program's 0-based index, so line i of the program is    *)
(*    bus[i + 1] here.                                                     *)
(*  - layouter.py calls line_limit(item) with one argument while util.py   *)
(*    declares line_limit(item, belt_type): the model passes the belt type *)
(*    of the run.                                                          *)
(***************************************************************************)
EXTENDS Integers, Sequences, FiniteSets, TLC

VARIABLES
    \* BeltManager
    bus,          \* BeltManager.bus: sequence of Line or NoLine
    pending,      \* BeltManager.pending: sequence of steps (Processes)
    output,       \* BeltManager.output: sequence of Placement / Compaction
    belt_type,    \* BeltManager.belt_type
    raw_inputs,   \* the constructor's `inputs` (sequence of Lines), kept for replay
    err,          \* "none", or the exception that ended run()
    \* Calculator.solve_all
    calc_items,   \* the argument `items`: {item: desired throughput}
    calc_stop,    \* Calculator.stop_items
    calc_todo,    \* the items the loop of solve_all has not reached yet
    calc_results, \* the local `results`: {item: Process}
    \* step splitter
    split_belt,      \* the belt type the steps are split for
    split_processes, \* the Processes given to the splitter
    split_next,      \* position of the next Process to split
    split_steps,     \* the steps emitted so far
    \* layouter.layout
    lay_steps,       \* the argument `steps`, each with what layout_step makes of it
    lay_final_bus,   \* the argument `final_bus`
    lay_pos,         \* position in `steps` of the loop; Len + 2 once layout returned
    base_y, height_since_roboports, oversize,
    prev_beacon_start,   \* {} for None, else {the value}
    prev_beacon_end, max_width,
    roboport_rows,   \* list of (bus, y pos)
    placed,          \* the root layout's sublayouts, in the order placed
    \* solve_oil
    oil_recipes,     \* what solve_oil reads from `recipes`
    oil_targets,     \* the argument `targets`: {item: throughput}
    oil_out,         \* <<>>, or <<what solve_oil returned>>
    \* Datafile.calc_mods
    mod_recipe,      \* the argument `recipe`: its can_prod, its building's speed and mod_slots
    mod_priorities,  \* the argument `priorities`: list of module names
    mod_beacon_speed,\* the argument `beacon_speed`
    mod_out,         \* <<>>, or <<how calc_mods ended>>
    \* Processor.find_processor, determine_bodies
    proc_step,       \* <<>>, or <<the step being laid out, by what the processor reads>>
    MATCH_CACHE,     \* Processor.MATCH_CACHE: (building, inputs, outputs) -> processor
    proc_found,      \* <<>>, or <<how the last find_processor ended>>
    proc_calls,      \* number of find_processor calls made
    proc_bodies,     \* {} before determine_bodies returned, else {what it returned}
    \* layouter.layout_in_outs
    route_step,      \* <<>>, or <<the Placement the in-outs are laid out for>>
    route_out        \* <<>>, or <<what layout_in_outs returned, or how it raised>>

bmVars == <<bus, pending, output, belt_type, raw_inputs, err>>

calcVars == <<calc_items, calc_stop, calc_todo, calc_results>>

splitVars == <<split_belt, split_processes, split_next, split_steps>>

layVars == <<lay_steps, lay_final_bus, lay_pos, base_y, height_since_roboports,
             oversize, prev_beacon_start, prev_beacon_end, max_width,
             roboport_rows, placed>>

oilVars == <<oil_recipes, oil_targets, oil_out>>

modVars == <<mod_recipe, mod_priorities, mod_beacon_speed, mod_out>>

procVars == <<proc_step, MATCH_CACHE, proc_found, proc_calls, proc_bodies>>

routeVars == <<route_step, route_out>>

vars == <<bmVars, calcVars, splitVars, layVars, oilVars, modVars, procVars, routeVars>>

-----------------------------------------------------------------------------
(* util.py *)

LIQUIDS == {"petroleum", "light oil", "heavy oil", "sulfuric acid", "lubricant",
            "crude oil", "water", "oil products", "light oil cracking",
            "heavy oil cracking"}

is_liquid(item) == item \in LIQUIDS

line_limit_widened(item, bt) ==
    IF is_liquid(item) THEN 17 * 60
    ELSE IF bt = "blue" THEN 60
    ELSE IF bt = "red" THEN 45
    ELSE 30

line_limit(item, bt) ==
    IF is_liquid(item) THEN 17 * 60
    ELSE IF bt = "blue" THEN 45
    ELSE IF bt = "red" THEN 30
    ELSE 15           \* "yellow"; any other belt type raises ValueError

BeltTypes == {"blue", "red", "yellow"}

-----------------------------------------------------------------------------
(* Data *)

NoLine == [item |-> "", throughput |-> 0]

Line(item, throughput) == [item |-> item, throughput |-> throughput]

\* Python compares item names as strings; the model ranks the names it uses
\* in the same (ASCII) order.
ItemNames == <<"black science", "blue science", "copper plate", "green science",
               "iron gear wheel", "iron plate", "purple science", "red science",
               "space science",
               "sulfuric acid", "water", "white science", "yellow science">>

ItemRank(item) == CHOOSE i \in 1..Len(ItemNames) : ItemNames[i] = item

Min2(a, b) == IF a < b THEN a ELSE b

Max2(a, b) == IF a > b THEN a ELSE b

\* The empty dict.
EmptyMap == <<>>

\* A step is a Process: its inputs() and outputs() maps {item: throughput}.
Step(name, ins, outs) == [name |-> name, ins |-> ins, outs |-> outs]

Placement(b, width, process, inputs, outputs) ==
    [type |-> "Placement", bus |-> b, width |-> width, process |-> process,
     inputs |-> inputs, outputs |-> outputs,
     compactions |-> <<>>, shifts |-> <<>>]

Compaction(b, width, compactions, shifts) ==
    [type |-> "Compaction", bus |-> b, width |-> width,
     process |-> Step("", EmptyMap, EmptyMap),
     inputs |-> EmptyMap, outputs |-> EmptyMap,
     compactions |-> compactions, shifts |-> shifts]

-----------------------------------------------------------------------------
(* beltmanager.py: helpers *)

\* while self.bus and self.bus[-1] is None: self.bus.pop()
RECURSIVE PopTrailing(_)
PopTrailing(b) ==
    IF Len(b) > 0 /\ b[Len(b)] = NoLine
    THEN PopTrailing(SubSeq(b, 1, Len(b) - 1))
    ELSE b

\* find_lines: the 0-based numbers of the lines that carry `input` with at
\* least `throughput`.
find_lines_any_item(b, input, throughput) ==
    { i \in 0..(Len(b) - 1) :
        b[i + 1] # NoLine /\ b[i + 1].throughput >= throughput }

find_lines_any_rate(b, input, throughput) ==
    { i \in 0..(Len(b) - 1) : b[i + 1] # NoLine /\ b[i + 1].item = input }

find_lines(b, input, throughput) ==
    { i \in 0..(Len(b) - 1) :
        /\ b[i + 1] # NoLine
        /\ b[i + 1].item = input
        /\ b[i + 1].throughput >= throughput }

\* min(lines, key=lambda (i, l): (l.throughput, -i)): least loaded, then rightmost.
LeastLoaded(b, lines) ==
    CHOOSE i \in lines :
        \A j \in lines :
            \/ b[i + 1].throughput < b[j + 1].throughput
            \/ (b[i + 1].throughput = b[j + 1].throughput /\ i >= j)

\* line_take's result: [bus, err].
line_take_keeps_zero(b, num, throughput) ==
    [bus |-> [b EXCEPT ![num + 1] =
                  Line(b[num + 1].item, b[num + 1].throughput - throughput)],
     err |-> "none"]

line_take_no_pop(b, num, throughput) ==
    [bus |-> [b EXCEPT ![num + 1] =
                  IF b[num + 1].throughput - throughput = 0 THEN NoLine
                  ELSE Line(b[num + 1].item, b[num + 1].throughput - throughput)],
     err |-> "none"]

line_take_pops_once(b, num, throughput) ==
    LET taken == [b EXCEPT ![num + 1] =
                     IF b[num + 1].throughput - throughput = 0 THEN NoLine
                     ELSE Line(b[num + 1].item, b[num + 1].throughput - throughput)]
    IN  [bus |-> IF taken[Len(taken)] = NoLine
                 THEN SubSeq(taken, 1, Len(taken) - 1) ELSE taken,
         err |-> "none"]

line_take(b, num, throughput) ==
    IF b[num + 1] = NoLine
    THEN [bus |-> b, err |-> "ValueError: taking from empty line"]
    ELSE IF b[num + 1].throughput - throughput < 0
    THEN [bus |-> b, err |-> "ValueError: took too much"]
    ELSE [bus |-> PopTrailing(
                    [b EXCEPT ![num + 1] =
                        IF b[num + 1].throughput - throughput = 0 THEN NoLine
                        ELSE Line(b[num + 1].item,
                                  b[num + 1].throughput - throughput)]),
          err |-> "none"]

\* add_line's result: [bus, index] (index 0-based).
FirstNone(b) == CHOOSE i \in 0..(Len(b) - 1) :
                    /\ b[i + 1] = NoLine
                    /\ \A j \in 0..(i - 1) : b[j + 1] # NoLine

add_line_leftmost_slot(b, item, throughput) ==
    [bus |-> IF Len(b) = 0 THEN <<Line(item, throughput)>>
             ELSE [b EXCEPT ![1] = Line(item, throughput)],
     index |-> 0]

add_line_appends(b, item, throughput) ==
    [bus |-> Append(b, Line(item, throughput)), index |-> Len(b)]

add_line(b, item, throughput) ==
    LET b2 == IF \A i \in 1..Len(b) : b[i] # NoLine THEN Append(b, NoLine) ELSE b
        index == FirstNone(b2)
    IN  [bus |-> [b2 EXCEPT ![index + 1] = Line(item, throughput)],
         index |-> index]

-----------------------------------------------------------------------------
(* beltmanager.py: find_candidates, pick_candidate *)

IsCandidate(b, step) ==
    \A input \in DOMAIN step.ins : find_lines(b, input, step.ins[input]) # {}

\* The positions in `pending` of the steps that could be done right now.
find_candidates(b, pend) ==
    { k \in 1..Len(pend) : IsCandidate(b, pend[k]) }

\* candidates[0]: the first candidate in pending order.
pick_candidate(candidates) ==
    CHOOSE k \in candidates : \A j \in candidates : k <= j

remove_nothing(pend, step) == pend

\* list.remove(step): removes the first element equal to step.
RemoveFirst(pend, step) ==
    LET k == CHOOSE i \in 1..Len(pend) :
                 pend[i] = step /\ \A j \in 1..(i - 1) : pend[j] # step
    IN  SubSeq(pend, 1, k - 1) \o SubSeq(pend, k + 1, Len(pend))


-----------------------------------------------------------------------------
(* beltmanager.py: add_step *)

\* inout_order: liquids first, then by throughput (highest first), then by name.
InoutBefore(io, a, b) ==
    LET la == IF is_liquid(a) THEN 0 ELSE 1
        lb == IF is_liquid(b) THEN 0 ELSE 1
    IN  \/ la < lb
        \/ la = lb /\ io[a] > io[b]
        \/ la = lb /\ io[a] = io[b] /\ ItemRank(a) < ItemRank(b)

\* sorted(io.items(), key=inout_order), as the sequence of item names.
RECURSIVE SortedBy(_, _)
SortedBy(io, S) ==
    IF S = {} THEN <<>>
    ELSE LET m == CHOOSE x \in S : \A y \in S \ {x} : InoutBefore(io, x, y)
         IN  <<m>> \o SortedBy(io, S \ {m})

inputs_in_order(step) == SortedBy(step.ins, DOMAIN step.ins)

outputs_in_order(step) == SortedBy(step.outs, DOMAIN step.outs)

\* y_slots = range(7), without slot 0 when there are at most 6 inputs + outputs.
y_slots_all_seven(step) == <<0, 1, 2, 3, 4, 5, 6>>

y_slots(step) ==
    IF Cardinality(DOMAIN step.ins) + Cardinality(DOMAIN step.outs) <= 6
    THEN <<1, 2, 3, 4, 5, 6>>
    ELSE <<0, 1, 2, 3, 4, 5, 6>>

Reversed(s) == [i \in 1..Len(s) |-> s[Len(s) + 1 - i]]

\* The one element of a singleton set: The({ e(x) : x \in {v} }) is e(v) with
\* v computed once, as a Python local is assigned once.
The(S) == CHOOSE x \in S : TRUE

\* The "pick inputs" loop over zip(y_slots, inputs_in_order), from pair k on.
\* Result: [bus, inputs, err].
RECURSIVE PickInputs(_, _, _, _, _, _)
PickInputs(b, step, order, slots, k, inputs) ==
    IF k > Min2(Len(slots), Len(order))
    THEN [bus |-> b, inputs |-> inputs, err |-> "none"]
    ELSE LET input == order[k]
             throughput == step.ins[input]
         IN  The({
               IF lines = {}
               THEN [bus |-> b, inputs |-> inputs,
                     err |-> "ValueError: min() arg is an empty sequence"]
               ELSE The({ The({
                      IF taken.err # "none"
                      THEN [bus |-> taken.bus, inputs |-> inputs, err |-> taken.err]
                      ELSE PickInputs(taken.bus, step, order, slots, k + 1,
                                      (line_num :> slots[k]) @@ inputs)
                      : taken \in { line_take(b, line_num, throughput) } })
                    : line_num \in { LeastLoaded(b, lines) } })
               : lines \in { find_lines(b, input, throughput) } })

\* The "pick outputs" loop over zip(y_slots[::-1], outputs_in_order).
\* Result: [bus, outputs].
RECURSIVE PickOutputs(_, _, _, _, _, _)
PickOutputs(b, step, order, slots, k, outputs) ==
    IF k > Min2(Len(slots), Len(order))
    THEN [bus |-> b, outputs |-> outputs]
    ELSE The({ PickOutputs(added.bus, step, order, slots, k + 1,
                           (added.index :> [item |-> order[k], y_slot |-> slots[k]])
                              @@ outputs)
               : added \in { add_line(b, order[k], step.outs[order[k]]) } })

\* What add_step does once the inputs are picked (ins) and the outputs are
\* added (outs): the assertions and the Placement.
AddStepResult(prev_bus, step, ins, outs) ==
    LET in_slots == { ins.inputs[i] : i \in DOMAIN ins.inputs }
        out_slots == { outs.outputs[i].y_slot : i \in DOMAIN outs.outputs }
        event == Placement(prev_bus, Max2(Len(outs.bus), Len(prev_bus)), step,
                           ins.inputs, outs.outputs)
    IN  IF ins.err # "none"
        THEN [bus |-> ins.bus, err |-> ins.err, event |-> event]
        ELSE IF Cardinality(DOMAIN ins.inputs) # Cardinality(DOMAIN step.ins)
        THEN [bus |-> ins.bus, err |-> "AssertionError: inputs", event |-> event]
        ELSE IF Cardinality(DOMAIN outs.outputs) # Cardinality(DOMAIN step.outs)
        THEN [bus |-> outs.bus, err |-> "AssertionError: outputs", event |-> event]
        ELSE IF in_slots \cap out_slots # {}
        THEN [bus |-> outs.bus, err |-> "AssertionError: inputs and outputs overlap",
              event |-> event]
        ELSE [bus |-> outs.bus, err |-> "none", event |-> event]

\* add_step's result: [bus, err, event]; the event is appended to output only
\* when err = "none" (an assertion that fails leaves the bus as mutated so far).
add_step(b, step) ==
    The({ The({ AddStepResult(b, step, ins, outs)
                : outs \in { PickOutputs(ins.bus, step, outputs_in_order(step),
                                         Reversed(y_slots(step)), 1, EmptyMap) } })
          : ins \in { PickInputs(b, step, inputs_in_order(step), y_slots(step),
                                 1, EmptyMap) } })

-----------------------------------------------------------------------------
(* beltmanager.py: compact *)

\* Lines left of `position` with the same item that are not full.
CompactCandidates(b, position, bt) ==
    { i \in 0..(position - 1) :
        /\ b[i + 1] # NoLine
        /\ b[i + 1].item = b[position + 1].item
        /\ b[i + 1].throughput < line_limit(b[i + 1].item, bt) }

\* scan left until first non-None (or we hit edge)
RECURSIVE ShiftTo(_, _)
ShiftTo(b, shift_to) ==
    IF shift_to > 0 /\ b[shift_to] = NoLine THEN ShiftTo(b, shift_to - 1)
    ELSE shift_to

\* One compaction of the line at `position` into dest_pos: the bus afterwards.
merge_without_limit(b, position, dest_pos, bt) ==
    line_take([b EXCEPT ![dest_pos + 1] =
                  Line(b[dest_pos + 1].item,
                       b[dest_pos + 1].throughput + b[position + 1].throughput)],
              position, b[position + 1].throughput).bus

merge_drops_rest(b, position, dest_pos, bt) ==
    line_take([b EXCEPT ![dest_pos + 1] =
                  Line(b[dest_pos + 1].item,
                       Min2(line_limit(b[dest_pos + 1].item, bt),
                            b[dest_pos + 1].throughput + b[position + 1].throughput))],
              position, b[position + 1].throughput).bus

Merge(b, position, dest_pos, bt) ==
    LET source == b[position + 1]
        dest == b[dest_pos + 1]
        limit == line_limit(dest.item, bt)
    IN  IF dest.throughput + source.throughput > limit
        THEN [b EXCEPT ![position + 1] =
                           Line(source.item,
                                dest.throughput + source.throughput - limit),
                       ![dest_pos + 1] = Line(dest.item, limit)]
        ELSE line_take([b EXCEPT ![dest_pos + 1] =
                            Line(dest.item, dest.throughput + source.throughput)],
                       position, source.throughput).bus

\* One shift of the line at `position` to shift_to: the bus afterwards.
shift_line_copies(b, position, shift_to) ==
    [b EXCEPT ![shift_to + 1] = b[position + 1]]

shift_line(b, position, shift_to) ==
    line_take([b EXCEPT ![shift_to + 1] = b[position + 1]],
              position, b[position + 1].throughput).bus

\* The right-to-left pass, from `position` on. Result: [bus, compactions, shifts].
RECURSIVE CompactPass(_, _, _, _, _)
CompactPass(b, position, bt, compactions, shifts) ==
    IF position <= 0
    THEN [bus |-> b, compactions |-> compactions, shifts |-> shifts]
    ELSE IF b[position + 1] = NoLine
    THEN CompactPass(b, position - 1, bt, compactions, shifts)
    ELSE LET candidates == CompactCandidates(b, position, bt)
         IN  IF candidates # {}
             THEN The({ The({ CompactPass(merged, dest_pos - 1, bt, recorded, shifts)
                              : merged \in { Merge(b, position, dest_pos, bt) },
                                recorded \in { Append(compactions,
                                                      <<dest_pos, position>>) } })
                        : dest_pos \in { LeastLoaded(b, candidates) } })
             ELSE The({ IF shift_to # position
                        THEN The({ CompactPass(shifted, shift_to - 1, bt, compactions,
                                               recorded)
                                   : shifted \in { shift_line(b, position, shift_to) },
                                     recorded \in { Append(shifts,
                                                           <<position, shift_to>>) } })
                        ELSE CompactPass(b, position - 1, bt, compactions, shifts)
                        : shift_to \in { ShiftTo(b, position) } })

\* if not compactions: raise ValueError("Could not compact bus any further")
compact_raises_on_nothing(compactions, shifts) == FALSE

compact_raises(compactions, shifts) == compactions = <<>>

\* compact's result: [bus, err, event].
compact(b, bt) ==
    The({ LET prev_bus == b
              event == Compaction(prev_bus, Len(prev_bus), pass.compactions,
                                  pass.shifts)
          IN  IF compact_raises(pass.compactions, pass.shifts)
              THEN [bus |-> pass.bus,
                    err |-> "ValueError: Could not compact bus any further",
                    event |-> event]
              ELSE [bus |-> pass.bus, err |-> "none", event |-> event]
          : pass \in { CompactPass(b, Len(b) - 1, bt, <<>>, <<>>) } })

-----------------------------------------------------------------------------
(* beltmanager.py: run / do_one *)

\* run() is still looping: nothing raised and steps are left.
Running == err = "none" /\ pending # <<>>

\* run() returned.
Completed == err = "none" /\ pending = <<>>

\* do_one, when there are candidates: remove the first and add_step it.
DoOnePlace ==
    /\ Running
    /\ find_candidates(bus, pending) # {}
    /\ \E step \in { pending[pick_candidate(find_candidates(bus, pending))] } :
          \E r \in { add_step(bus, step) } :
              /\ pending' = RemoveFirst(pending, step)
              /\ bus' = r.bus
              /\ err' = r.err
              /\ output' = IF r.err = "none" THEN Append(output, r.event) ELSE output
    /\ UNCHANGED <<belt_type, raw_inputs>>
    /\ UNCHANGED <<calcVars, splitVars, layVars, oilVars, modVars, procVars, routeVars>>

\* do_one, when there are none: compact, and assert that the bus changed.
DoOneCompact ==
    /\ Running
    /\ find_candidates(bus, pending) = {}
    /\ \E r \in { compact(bus, belt_type) } :
          /\ bus' = r.bus
          /\ err' = IF r.err # "none" THEN r.err
                    ELSE IF r.bus = bus THEN "AssertionError: bus unchanged"
                    ELSE "none"
          /\ output' = IF r.err = "none" THEN Append(output, r.event) ELSE output
    /\ UNCHANGED <<pending, belt_type, raw_inputs>>
    /\ UNCHANGED <<calcVars, splitVars, layVars, oilVars, modVars, procVars, routeVars>>

do_one == DoOnePlace \/ DoOneCompact

-----------------------------------------------------------------------------
(* The belt manager's runs: BeltManager(steps, inputs, belt_type).run() *)

MaxInputs == 4    \* longest raw-input list
MaxPending == 2   \* longest list of steps

SeqsUpTo(S, n) == UNION { [1..k -> S] : k \in 0..n }

\* Raw input lines the runs are built from.
RawLines == { Line("iron plate", 15), Line("iron plate", 30),
              Line("red science", 15), Line("water", 30) }

\* Steps the runs are built from.
GearStep == Step("iron gear wheel", ("iron plate" :> 30), ("iron gear wheel" :> 15))

AcidStep == Step("sulfuric acid", ("iron plate" :> 15) @@ ("water" :> 30),
                 ("sulfuric acid" :> 15))

\* A virtual recipe (no outputs on the bus).
ResearchStep == Step("research", ("red science" :> 15), EmptyMap)

StepBook == { GearStep, AcidStep, ResearchStep }

\* The lab with all seven science packs: seven inputs, so y_slot 0 is in use.
SciencePacks == <<"red science", "green science", "black science", "blue science",
                  "purple science", "yellow science", "white science">>

LabStep == Step("lab", [p \in { SciencePacks[i] : i \in 1..7 } |-> 15], EmptyMap)

ScienceRates == {15, 30}

\* __init__'s contract: no raw line and no step input or output exceeds the
\* line limit of its item.
WithinLimits(raw, steps, bt) ==
    /\ \A i \in 1..Len(raw) : raw[i].throughput <= line_limit(raw[i].item, bt)
    /\ \A k \in 1..Len(steps) :
          /\ \A x \in DOMAIN steps[k].ins : steps[k].ins[x] <= line_limit(x, bt)
          /\ \A x \in DOMAIN steps[k].outs : steps[k].outs[x] <= line_limit(x, bt)

BusRuns ==
    { r \in [raw : SeqsUpTo(RawLines, MaxInputs),
             steps : SeqsUpTo(StepBook, MaxPending),
             bt : BeltTypes] : WithinLimits(r.raw, r.steps, r.bt) }

\* A bus of the seven science packs in some rotation of their order, at most
\* one of them carrying more than the lab takes, with one more raw line among
\* them.
SpareLines == { Line("iron plate", 15), Line("water", 30) }

InsertAt(s, k, e) == SubSeq(s, 1, k) \o <<e>> \o SubSeq(s, k + 1, Len(s))

LabRaws ==
    { InsertAt([i \in 1..7 |-> Line(SciencePacks[((i - 1 + rot) % 7) + 1], f[i])],
               at, spare) :
        rot \in 0..6,
        f \in { g \in [1..7 -> ScienceRates] :
                  Cardinality({ i \in 1..7 : g[i] > LabStep.ins[SciencePacks[i]] }) <= 1 },
        at \in 0..7, spare \in SpareLines }

LabRuns ==
    { r \in [raw : LabRaws, steps : { <<LabStep>> }, bt : BeltTypes] :
        WithinLimits(r.raw, r.steps, r.bt) }

\* Recipes with more than seven inputs and outputs together: seven inputs and
\* an output, and eight inputs. Their buses are those of the lab that start
\* with red science or with the spare line.
SevenToOneStep == Step("space science", LabStep.ins, ("space science" :> 15))

EightInputStep == Step("lab", LabStep.ins @@ ("iron plate" :> 15), EmptyMap)

WideRuns ==
    { r \in [raw : { raw \in LabRaws :
                       "red science" \in { raw[1].item, raw[2].item } },
             steps : { <<SevenToOneStep>>, <<EightInputStep>> }, bt : BeltTypes] :
        WithinLimits(r.raw, r.steps, r.bt) }

\* A recipe with two outputs, alone, after the research step and twice.
TwoOutputStep == Step("uranium processing", ("iron plate" :> 15),
                      ("copper plate" :> 15) @@ ("iron gear wheel" :> 30))

MaxTwoOutputInputs == 3

TwoOutputRuns ==
    { r \in [raw : SeqsUpTo(RawLines, MaxTwoOutputInputs),
             steps : { <<TwoOutputStep>>, <<ResearchStep, TwoOutputStep>>,
                       <<TwoOutputStep, TwoOutputStep>> },
             bt : BeltTypes] : WithinLimits(r.raw, r.steps, r.bt) }

\* No belt manager is running.
BmIdle ==
    /\ raw_inputs = <<>> /\ bus = <<>> /\ pending = <<>> /\ output = <<>>
    /\ belt_type = "blue" /\ err = "none"

\* No calculator is running.
CalcIdle ==
    /\ calc_items = EmptyMap /\ calc_stop = {} /\ calc_todo = {}
    /\ calc_results = EmptyMap

\* No splitter is running.
SplitIdle ==
    /\ split_belt = "blue" /\ split_processes = <<>> /\ split_next = 1
    /\ split_steps = <<>>

\* calc_mods has not been called.
ModIdle ==
    /\ mod_recipe = <<>> /\ mod_priorities = <<>> /\ mod_beacon_speed = 0
    /\ mod_out = <<>>

\* No processor is being looked up.
ProcIdle ==
    /\ proc_step = <<>> /\ MATCH_CACHE = <<>> /\ proc_found = <<>>
    /\ proc_calls = 0 /\ proc_bodies = {}

\* No in-outs are being laid out.
RouteIdle == route_step = <<>> /\ route_out = <<>>

\* solve_oil has not been called.
OilIdle == oil_recipes = <<>> /\ oil_targets = <<>> /\ oil_out = <<>>

\* No layout is running.
LayIdle ==
    /\ lay_steps = <<>> /\ lay_final_bus = <<>> /\ lay_pos = 2
    /\ base_y = 0 /\ height_since_roboports = 0 /\ oversize = 0
    /\ prev_beacon_start = {} /\ prev_beacon_end = 0 /\ max_width = 0
    /\ roboport_rows = <<>> /\ placed = <<>>

Init ==
    /\ \E r \in BusRuns \cup LabRuns \cup WideRuns \cup TwoOutputRuns :
          /\ raw_inputs = r.raw
          /\ bus = r.raw
          /\ pending = r.steps
          /\ output = <<>>
          /\ belt_type = r.bt
          /\ err = "none"
    /\ CalcIdle
    /\ SplitIdle
    /\ LayIdle
    /\ OilIdle
    /\ ModIdle
    /\ ProcIdle
    /\ RouteIdle

Next == do_one

Spec == Init /\ [][Next]_vars

-----------------------------------------------------------------------------
(* calculator.py: solve, solve_all, merge_into *)

\* datafile.recipes after resolve_recipe: for each item that has a recipe, the
\* inputs per unit of output. Items without an entry are raw. solve only
\* multiplies these amounts by throughputs and adds the products, so the model
\* keeps them as integers. (calculator.py line 77 reads a bare `stop_items`; the
\* model reads it as self.stop_items, as the constructor's docstring and the
\* single-file version of solve describe.)
Recipes ==
    [x \in {"iron gear wheel", "transport belt", "green science", "red science"} |->
        IF x = "iron gear wheel" THEN ("iron plate" :> 2)
        ELSE IF x = "transport belt"
        THEN ("iron gear wheel" :> 1) @@ ("iron plate" :> 1)
        ELSE IF x = "green science"
        THEN ("iron gear wheel" :> 1) @@ ("transport belt" :> 1)
        ELSE ("copper plate" :> 1) @@ ("iron gear wheel" :> 1)]

CalcItems == DOMAIN Recipes \cup UNION { DOMAIN Recipes[x] : x \in DOMAIN Recipes }

\* Process(item, recipe, throughput); recipe is "" (None) for a raw input,
\* else the name of the resolved recipe.
Process(item, recipe, throughput) ==
    [item |-> item, recipe |-> recipe, throughput |-> throughput]

\* merge_into(a, b): the dict a afterwards. Its assertion that both processes
\* of an item have the same recipe cannot fail here: within one Calculator the
\* recipe of a process is a function of its item.
merge_into_overwrites(a, b) == b @@ a

merge_into(a, b) ==
    [k \in DOMAIN a \cup DOMAIN b |->
        IF k \in DOMAIN a /\ k \in DOMAIN b
        THEN Process(k, a[k].recipe, a[k].throughput + b[k].throughput)
        ELSE IF k \in DOMAIN a THEN a[k] ELSE b[k]]

\* solve(item, throughput): {item: Process}. The loop over recipe.inputs is
\* SolveInputs, from the inputs `names` not yet visited.
RECURSIVE solve(_, _, _)
RECURSIVE SolveInputs(_, _, _, _, _)
solve(item, throughput, stop_items) ==
    IF item \notin DOMAIN Recipes \/ item \in stop_items
    THEN (item :> Process(item, "", throughput))
    ELSE SolveInputs(item, throughput, stop_items, DOMAIN Recipes[item],
                     (item :> Process(item, item, throughput)))

SolveInputs(item, throughput, stop_items, names, result) ==
    IF names = {} THEN result
    ELSE LET name == CHOOSE n \in names : TRUE
             amount == Recipes[item][name] * throughput
         IN  SolveInputs(item, throughput, stop_items, names \ {name},
                         merge_into(result, solve(name, amount, stop_items)))

\* One iteration of solve_all's loop over items.items(), in any order.
SolveNext ==
    /\ calc_todo # {}
    /\ \E item \in calc_todo :
          /\ calc_results' = merge_into(calc_results,
                                        solve(item, calc_items[item], calc_stop))
          /\ calc_todo' = calc_todo \ {item}
    /\ UNCHANGED <<calc_items, calc_stop>>
    /\ UNCHANGED <<bmVars, splitVars, layVars, oilVars, modVars, procVars, routeVars>>

MaxDemand == 2     \* largest requested throughput

\* Demand maps: any set of items, each at a positive throughput.
DemandItems == {"green science", "transport belt", "iron gear wheel", "iron plate"}

Demands == UNION { [S -> 1..MaxDemand] : S \in SUBSET DemandItems }

StopChoices == { {}, {"iron gear wheel"}, {"transport belt"} }

InitCalc ==
    /\ calc_items \in Demands
    /\ calc_stop \in StopChoices
    /\ calc_todo = DOMAIN calc_items
    /\ calc_results = EmptyMap
    /\ BmIdle
    /\ SplitIdle
    /\ LayIdle
    /\ OilIdle
    /\ ModIdle
    /\ ProcIdle
    /\ RouteIdle

NextCalc == SolveNext

SpecCalc == InitCalc /\ [][NextCalc]_vars

-----------------------------------------------------------------------------
(* The step splitter (split_into_steps, imported by main.py from calculator.py  *)
(* but not defined there): modelled from the design document, section 4.3.     *)

\* A rate of an emitted step is the exact rational num / den.
Rate(num, den) == [num |-> num, den |-> den]

\* The rates {item: throughput} of a process, inputs and outputs together.
InOuts(process) ==
    { [item |-> x, throughput |-> process.ins[x]] : x \in DOMAIN process.ins }
    \cup { [item |-> x, throughput |-> process.outs[x]] : x \in DOMAIN process.outs }

\* The input or output with the largest throughput / capacity; steps is
\* Tightest.throughput / capacity(Tightest.item).
Tightest(process, bt) ==
    CHOOSE a \in InOuts(process) :
        \A b \in InOuts(process) :
            a.throughput * line_limit(b.item, bt) >= b.throughput * line_limit(a.item, bt)

\* The process rescaled by num / den.
Rescaled(process, num, den, kind) ==
    [kind |-> kind,
     ins |-> [x \in DOMAIN process.ins |-> Rate(process.ins[x] * num, den)],
     outs |-> [x \in DOMAIN process.outs |-> Rate(process.outs[x] * num, den)]]

\* The steps of one process: floor(steps) maximal steps at throughput / steps
\* each, and a fractional step for the remainder if steps is not an integer.
SplitProcess(process, bt) ==
    LET num == Tightest(process, bt).throughput
        den == line_limit(Tightest(process, bt).item, bt)
        whole == num \div den
    IN  [k \in 1..whole |-> Rescaled(process, den, num, "maximal")]
        \o (IF num % den = 0 THEN <<>>
            ELSE << Rescaled(process, num % den, num, "fractional") >>)

\* Split the next process.
SplitNext ==
    /\ split_next <= Len(split_processes)
    /\ split_steps' = split_steps
                        \o [k \in 1..Len(SplitProcess(split_processes[split_next], split_belt)) |->
                              [of |-> split_next,
                               step |-> SplitProcess(split_processes[split_next],
                                                     split_belt)[k]]]
    /\ split_next' = split_next + 1
    /\ UNCHANGED <<split_belt, split_processes>>
    /\ UNCHANGED <<bmVars, calcVars, layVars, oilVars, modVars, procVars, routeVars>>

MaxProcesses == 2   \* longest list of processes given to the splitter

SplitInputs ==
    { ("iron plate" :> r) : r \in {10, 50, 100} }
    \cup { ("iron plate" :> r) @@ ("water" :> 1500) : r \in {10, 50, 100} }

SplitProcessChoices ==
    { [ins |-> i, outs |-> ("iron gear wheel" :> o)] : i \in SplitInputs, o \in {10, 50} }

InitSplit ==
    /\ split_belt \in BeltTypes
    /\ split_processes \in SeqsUpTo(SplitProcessChoices, MaxProcesses)
    /\ split_next = 1
    /\ split_steps = <<>>
    /\ BmIdle
    /\ CalcIdle
    /\ LayIdle
    /\ OilIdle
    /\ ModIdle
    /\ ProcIdle
    /\ RouteIdle

NextSplit == SplitNext

SpecSplit == InitSplit /\ [][NextSplit]_vars

-----------------------------------------------------------------------------
(* primitives.py and art_encoder.py: entities and the tiles they cover *)

\* A placed entity: its position (top-left tile), the size of its art in
\* ArtEncoder.ART (w columns, h rows), its name and the part of the bus layout
\* that placed it.
Ent(x, y, w, h, name, part) ==
    [x |-> x, y |-> y, w |-> w, h |-> h, name |-> name, part |-> part]

\* Layout.place(dx, dy, sublayout), flattened.
Place(dx, dy, ents) ==
    { Ent(e.x + dx, e.y + dy, e.w, e.h, e.name, e.part) : e \in ents }

\* belt(orientation, length) and pipe(orientation, length): one 1x1 entity
\* per tile, from (0, 0) in direction (dx, dy); nothing when length <= 0.
Run(name, dx, dy, length, part) ==
    { Ent(i * dx, i * dy, 1, 1, name, part) : i \in 0..(length - 1) }

belt_p(dx, dy, length, part) == Run("belt", dx, dy, length, part)

pipe_p(dx, dy, length, part) == Run("pipe", dx, dy, length, part)

\* A splitter facing DOWN is drawn one row high and two columns wide.
splitter_down(x, y, part) == Ent(x, y, 2, 1, "splitter", part)

\* A pump facing DOWN is drawn two rows high.
pump_down(x, y, part) == Ent(x, y, 1, 2, "pump", part)

underpass_pipe(part) ==
    { pump_down(0, 0, part), Ent(0, 2, 1, 1, "underground_pipe", part),
      Ent(0, 9, 1, 1, "underground_pipe", part) }

underpass_pipe_no_pump(part) ==
    { Ent(0, 0, 1, 1, "underground_pipe", part),
      Ent(0, 9, 1, 1, "underground_pipe", part) }

underpass_belt(part) ==
    { Ent(0, 0, 1, 1, "underground_belt", part),
      Ent(0, 9, 1, 1, "underground_belt", part) }

\* belt_surface(o) / pipe_surface(o): two entities, at (0, 0) and one tile on
\* in the direction o (dx = 1 for RIGHT, -1 for LEFT).
surface(name, dx, part) ==
    { Ent(0, 0, 1, 1, name, part), Ent(dx, 0, 1, 1, name, part) }

belt_offramp(y_slot, part) ==
    belt_p(0, 1, y_slot, part)
    \cup { splitter_down(0, y_slot, part) }
    \cup { Ent(0, y_slot + 1, 1, 1, "belt", part),
           Ent(1, y_slot + 1, 1, 1, "underground_belt", part),
           Ent(0, y_slot + 2, 1, 1, "belt", part),
           Ent(1, y_slot + 2, 1, 1, "underground_belt", part),
           Ent(1, y_slot + 3, 1, 1, "underground_belt", part),
           Ent(0, y_slot + 4, 1, 1, "belt", part),
           Ent(1, y_slot + 4, 1, 1, "belt", part) }
    \cup Place(0, y_slot + 5, belt_p(0, 1, 5 - y_slot, part))

belt_offramp_all(y_slot, part) ==
    belt_p(0, 1, y_slot + 2, part)
    \cup { Ent(0, y_slot + 2, 1, 1, "belt", part),
           Ent(1, y_slot + 2, 1, 1, "underground_belt", part) }

pipe_ramp(y_slot, part) ==
    pipe_p(0, 1, 10, part) \cup { Ent(1, y_slot + 2, 1, 1, "underground_pipe", part) }

pipe_offramp_all(y_slot, part) ==
    pipe_p(0, 1, y_slot + 3, part)
    \cup { Ent(1, y_slot + 2, 1, 1, "underground_pipe", part) }

belt_onramp_all(height, part) ==
    belt_p(0, 1, height + 1, part) \cup { Ent(1, 0, 1, 1, "underground_belt", part) }

pipe_onramp_all(height, part) ==
    pipe_p(0, 1, height + 1, part) \cup { Ent(1, 0, 1, 1, "underground_pipe", part) }

belt_to_left(part) ==
    { Ent(0, 0, 1, 1, "belt", part), splitter_down(-1, 1, part),
      Ent(-1, 2, 1, 1, "belt", part), Ent(0, 2, 1, 1, "belt", part),
      Ent(0, 3, 1, 1, "belt", part) }

pipe_to_left(part) == pipe_p(0, 1, 4, part)

belt_from_left(part) == belt_p(0, 1, 2, part)

pipe_from_left(part) == pipe_p(0, 1, 2, part)

compact_belts(part) ==
    belt_p(0, 1, 4, part)
    \cup { Ent(1, 3, 1, 1, "belt", part), splitter_down(0, 4, part),
           Ent(1, 5, 1, 1, "belt", part) }
    \cup Place(0, 5, belt_p(0, 1, 5, part))

compact_belts_with_overflow(part) ==
    belt_p(0, 1, 6, part)
    \cup Place(1, 3, belt_p(0, 1, 3, part))
    \cup { splitter_down(0, 6, part), splitter_down(1, 7, part),
           Ent(1, 8, 1, 1, "belt", part) }
    \cup Place(0, 7, belt_p(0, 1, 3, part))

compact_pipe(part) == pipe_p(0, 1, 10, part) \cup { Ent(1, 3, 1, 1, "pipe", part) }

\* ArtEncoder.blit: the tiles an entity's art is written to.
Tiles(e) == { <<e.x + dx, e.y + dy>> : dx \in 0..(e.w - 1), dy \in 0..(e.h - 1) }

\* blit with error_on_conflict raises when a tile is written twice.
BlitConflict(ents) ==
    \E e1 \in ents : \E e2 \in ents \ {e1} : Tiles(e1) \cap Tiles(e2) # {}

-----------------------------------------------------------------------------
(* layouter.py: the bus area of one step *)

BUS_START_X == 4

bus_x(index) == BUS_START_X + 2 * index

\* layout_step: the columns between the bus and the process.
Padding(width) ==
    LET p == 3 - ((2 * width + BUS_START_X) % 3)
    IN  IF p = 0 THEN 3 ELSE p

process_base_x(width) == 2 * width + BUS_START_X + Padding(width)

\* target_index = (process_base_x - padding - BUS_START_X) / 2
target_index(width) == (process_base_x(width) - Padding(width) - BUS_START_X) \div 2

used_inputs_only(ev) == DOMAIN ev.inputs

\* used = set(step.inputs.keys() + step.outputs.keys()), or for a Compaction
\* every index named in a compaction or a shift.
Used(ev) ==
    IF ev.type = "Placement" THEN DOMAIN ev.inputs \cup DOMAIN ev.outputs
    ELSE { ev.compactions[k][1] : k \in 1..Len(ev.compactions) }
         \cup { ev.compactions[k][2] : k \in 1..Len(ev.compactions) }
         \cup { ev.shifts[k][1] : k \in 1..Len(ev.shifts) }
         \cup { ev.shifts[k][2] : k \in 1..Len(ev.shifts) }

\* horiz_line: the bus indexes where the underground line from bus_index
\* surfaces; ok is FALSE when it raises "Failed to place horizontal line".
horiz_line_never_surfacing(used, bus_index, target) == [ok |-> TRUE, at |-> {}]

RECURSIVE horiz_line(_, _, _)
horiz_line(used, bus_index, target) ==
    IF ~(bus_index + 5 < target) THEN [ok |-> TRUE, at |-> {}]
    ELSE LET free == { d \in 1..5 : (bus_index + d) \notin used }
         IN  IF free = {} THEN [ok |-> FALSE, at |-> {}]
             ELSE LET delta == CHOOSE d \in free : \A d2 \in free : d2 <= d
                      rest == horiz_line(used, bus_index + delta, target)
                  IN  [ok |-> rest.ok, at |-> {bus_index + delta} \cup rest.at]

\* surfacing(item, orientation): the padding row of one input or output.
surfacing(item, padding, part) ==
    IF is_liquid(item)
    THEN (IF padding = 1 THEN { Ent(0, 0, 1, 1, "underground_pipe", part) }
          ELSE IF padding = 2 THEN { Ent(1, 0, 1, 1, "underground_pipe", part) }
          ELSE surface("underground_pipe", 1, part)
               \cup { Ent(2, 0, 1, 1, "underground_pipe", part) })
    ELSE { Ent(0, 0, 1, 1, "underground_belt", part) }
         \cup Place(1, 0, belt_p(1, 0, padding - 1, part))

\* The off-ramp of the input at bus_index, placed at (bus_x, -2).
InputRamp(ev, bus_index) ==
    LET line == ev.bus[bus_index + 1]
        y_slot == ev.inputs[bus_index]
        line_ends == line.throughput = ev.process.ins[line.item]
        part == <<"input", bus_index>>
    IN  Place(bus_x(bus_index), -2,
              IF is_liquid(line.item)
              THEN (IF line_ends THEN pipe_offramp_all(y_slot, part)
                    ELSE pipe_ramp(y_slot, part))
              ELSE (IF line_ends THEN belt_offramp_all(y_slot, part)
                    ELSE belt_offramp(y_slot, part)))

\* The on-ramp of the output at bus_index, placed at (bus_x, y_slot).
OutputRamp(ev, bus_index) ==
    LET item == ev.outputs[bus_index].item
        y_slot == ev.outputs[bus_index].y_slot
        part == <<"output", bus_index>>
    IN  Place(bus_x(bus_index), y_slot,
              IF is_liquid(item) THEN pipe_onramp_all(7 - y_slot, part)
              ELSE belt_onramp_all(7 - y_slot, part))

\* The horizontal line of one input (dx = 1, RIGHT) or output (dx = -1, LEFT):
\* its surfacing points along the bus and its padding row.
HorizAndPadding(ev, item, bus_index, y_slot, dx, kind) ==
    LET h == horiz_line(Used(ev), bus_index, target_index(ev.width))
        name == IF is_liquid(item) THEN "underground_pipe" ELSE "underground_belt"
    IN  UNION { Place(bus_x(i) + (IF dx = -1 THEN 1 ELSE 0), y_slot,
                      surface(name, dx, <<kind, bus_index, i>>)) : i \in h.at }
        \cup Place(BUS_START_X + 2 * target_index(ev.width), y_slot,
                   surfacing(item, Padding(ev.width), <<kind, bus_index>>))

\* layout_in_outs: [err, ents, forbidden_pump_indexes].
layout_in_outs(ev) ==
    LET target == target_index(ev.width)
        in_lines == [i \in DOMAIN ev.inputs |-> horiz_line(Used(ev), i, target)]
        out_lines == [i \in DOMAIN ev.outputs |-> horiz_line(Used(ev), i, target)]
    IN  [err |-> IF \/ \E i \in DOMAIN ev.inputs : ~in_lines[i].ok
                    \/ \E i \in DOMAIN ev.outputs : ~out_lines[i].ok
                 THEN "ValueError: Failed to place horizontal line"
                 ELSE "none",
         ents |->
             UNION { InputRamp(ev, i)
                     \cup HorizAndPadding(ev, ev.bus[i + 1].item, i, ev.inputs[i],
                                          1, "input line") : i \in DOMAIN ev.inputs }
             \cup
             UNION { OutputRamp(ev, i)
                     \cup HorizAndPadding(ev, ev.outputs[i].item, i,
                                          ev.outputs[i].y_slot, -1, "output line")
                     : i \in DOMAIN ev.outputs },
         forbidden |->
             UNION { in_lines[i].at : i \in { j \in DOMAIN ev.inputs : ev.inputs[j] = 0 } }
             \cup UNION { out_lines[i].at :
                            i \in { j \in DOMAIN ev.outputs : ev.outputs[j].y_slot = 0 } }]

\* layout_compaction, one (left, right) compaction.
CompactionEnts(ev, left, right, bt) ==
    LET right_ends == ev.bus[left + 1].throughput + ev.bus[right + 1].throughput
                          <= line_limit(ev.bus[left + 1].item, bt)
        liquid == is_liquid(ev.bus[left + 1].item)
        line_right == bus_x(right) - 1
        line_left == bus_x(left) + 2
        name == IF liquid THEN "pipe" ELSE "belt"
        part == <<"compaction", left, right>>
    IN  Place(bus_x(right), -2,
              IF liquid THEN pipe_to_left(part) ELSE belt_to_left(part))
        \cup Place(line_right, 1, Run(name, -1, 0, line_right - line_left + 1, part))
        \cup Place(bus_x(left), -2,
                   IF liquid THEN compact_pipe(part)
                   ELSE IF right_ends THEN compact_belts(part)
                   ELSE compact_belts_with_overflow(part))
        \cup (IF right_ends THEN {}
              ELSE Place(line_left, 6,
                         Run(name, 1, 0, line_right - line_left + 1,
                             <<"overflow", left, right>>))
                   \cup Place(bus_x(right), 6,
                              IF liquid THEN pipe_from_left(<<"overflow end", left, right>>)
                              ELSE belt_from_left(<<"overflow end", left, right>>)))

\* layout_compaction, one (right, left) shift.
ShiftEnts(ev, right, left) ==
    LET liquid == is_liquid(ev.bus[right + 1].item)
        line_right == bus_x(right) - 1
        line_left == bus_x(left) + 1
        name == IF liquid THEN "pipe" ELSE "belt"
        part == <<"shift", right, left>>
    IN  Place(bus_x(right), -2,
              IF liquid THEN pipe_to_left(part) ELSE belt_to_left(part))
        \cup Place(line_right, 1, Run(name, -1, 0, line_right - line_left + 1, part))
        \cup Place(bus_x(left), 1, Run(name, 0, 1, 7, <<"shift down", right, left>>))

\* layout_compaction: [err, ents].
layout_compaction(ev, bt) ==
    [err |-> IF \E k \in 1..Len(ev.compactions) :
                  LET left == ev.bus[ev.compactions[k][1] + 1]
                      right == ev.bus[ev.compactions[k][2] + 1]
                  IN  /\ is_liquid(left.item)
                      /\ left.throughput + right.throughput > line_limit(left.item, bt)
             THEN "NotImplementedError: Compaction with overflow for fluids"
             ELSE "none",
     ents |-> UNION { CompactionEnts(ev, ev.compactions[k][1], ev.compactions[k][2], bt)
                      : k \in 1..Len(ev.compactions) }
              \cup UNION { ShiftEnts(ev, ev.shifts[k][1], ev.shifts[k][2])
                           : k \in 1..Len(ev.shifts) }]

\* layout_bus, the underpass of the unused line at bus_pos.
Underpass(ev, bus_pos, forbidden_pump_indexes) ==
    LET part == <<"underpass", bus_pos>>
    IN  Place(bus_x(bus_pos), -2,
              IF ~is_liquid(ev.bus[bus_pos + 1].item) THEN underpass_belt(part)
              ELSE IF bus_pos \in forbidden_pump_indexes
              THEN underpass_pipe_no_pump(part)
              ELSE underpass_pipe(part))

\* layout_bus: [err, ents], the entities relative to the step's origin.
layout_bus(ev, bt) ==
    LET inner == IF ev.type = "Placement" THEN layout_in_outs(ev)
                 ELSE [err |-> layout_compaction(ev, bt).err,
                       ents |-> layout_compaction(ev, bt).ents,
                       forbidden |-> {}]
        positions == 0..(Len(ev.bus) - 1)
    IN  [err |-> inner.err,
         ents |->
             { Ent(0, -3, 4, 4, "roboport", <<"infra">>),
               Ent(2, 1, 2, 2, "big_pole", <<"infra">>) }
             \cup inner.ents
             \cup UNION { Underpass(ev, p, inner.forbidden) :
                            p \in { q \in positions :
                                      q \notin Used(ev) /\ ev.bus[q + 1] # NoLine } }
             \cup { Ent(bus_x(p) + 1, -2, 1, 1, "medium_pole", <<"pole", p>>) :
                      p \in { q \in positions :
                                q % 4 = 0 \/ q = Len(ev.bus) - 1 } }]

-----------------------------------------------------------------------------
(* layouter.py: layout, layout_bus_extension, layout_beacons,                 *)
(* layout_roboport_row                                                         *)

STEP_SIZE == 10

ROBOPORT_AREA_SIZE == 110 - 4

LOGISTIC_AREA == 50

CONSTRUCT_AREA == 110

\* A sublayout placed in the root layout: its position, its name and its
\* entities (relative to the position).
Sub(x, y, name, ents) == [x |-> x, y |-> y, name |-> name, ents |-> ents]

\* layout_bus_extension(bus, size): a belt or pipe of length size going down
\* from (bus_x, -2) for every line that is not None.
layout_bus_extension_every_slot(b, size) ==
    UNION { Place(bus_x(p), -2, belt_p(0, 1, size, <<"bus extension", p>>))
            : p \in 0..(Len(b) - 1) }

layout_bus_extension(b, size) ==
    UNION { Place(bus_x(p), -2,
                  IF is_liquid(b[p + 1].item)
                  THEN pipe_p(0, 1, size, <<"bus extension", p>>)
                  ELSE belt_p(0, 1, size, <<"bus extension", p>>))
            : p \in { q \in 0..(Len(b) - 1) : b[q + 1] # NoLine } }

\* layout_beacons(beacon_module, width): ceil(width / 3) beacons, 3 apart.
layout_beacons(width) ==
    { Ent(3 * i, 0, 3, 3, "beacon", <<"beacons", i>>)
      : i \in 0..(((width + 2) \div 3) - 1) }

\* The shorter underpasses that go under a roboport row.
roboport_underpass_pipe(part) ==
    { Ent(0, 0, 1, 1, "underground_pipe", part),
      Ent(0, 6, 1, 1, "underground_pipe", part) }

roboport_underpass_belt(part) ==
    { Ent(0, 0, 1, 1, "belt_to_ground", part),
      Ent(0, 6, 1, 1, "belt_from_ground", part) }

\* layout_roboport_row(bus, width).
num_roboports(width) ==
    \* ceil((width - CONSTRUCT_AREA/2) / LOGISTIC_AREA); \div rounds down
    (width - CONSTRUCT_AREA \div 2 + LOGISTIC_AREA - 1) \div LOGISTIC_AREA

layout_roboport_row(b, width) ==
    { Ent(bus_x(p) + 1, -2, 1, 1, "medium_pole", <<"pole", p>>)
      : p \in { q \in 0..(Len(b) - 1) : q % 4 = 0 \/ q = Len(b) - 1 } }
    \cup UNION { Place(bus_x(p), -2,
                       IF is_liquid(b[p + 1].item)
                       THEN roboport_underpass_pipe(<<"underpass", p>>)
                       ELSE roboport_underpass_belt(<<"underpass", p>>))
                 : p \in { q \in 0..(Len(b) - 1) : b[q + 1] # NoLine } }
    \cup UNION { LET x_pos == (i + 1) * LOGISTIC_AREA - 2
                 IN  { Ent(x_pos - LOGISTIC_AREA \div 2, 0, 2, 2, "big_pole", <<"row", i, 1>>),
                       Ent(x_pos, 0, 4, 4, "roboport", <<"row", i, 2>>),
                       Ent(x_pos - 2, 0, 2, 2, "big_pole", <<"row", i, 3>>),
                       Ent(x_pos - 5, 0, 3, 3, "radar", <<"row", i, 4>>) }
                 : i \in 0..(num_roboports(width) - 1) }

\* What layout_step returns for a step, besides the layout: the x position to
\* start beacons at, where the process ends, and the oversize.
beacon_start_of(step) == process_base_x(step.width)

beacon_end_of(step) ==
    IF step.type = "Placement" THEN step.process_width + process_base_x(step.width)
    ELSE 0

oversize_of(step) == IF step.type = "Placement" THEN step.oversize ELSE 0

\* The step's own layout, as far as it is placed by layout_bus outside the
\* bus lines: the infrastructure column and the medium poles. (The lines' and
\* the processor's entities are not part of this model of layout.)
StepEnts(step) ==
    { Ent(0, -3, 4, 4, "roboport", <<"infra">>),
      Ent(2, 1, 2, 2, "big_pole", <<"infra">>) }
    \cup { Ent(bus_x(p) + 1, -2, 1, 1, "medium_pole", <<"pole", p>>)
           : p \in { q \in 0..(Len(step.bus) - 1) :
                       q % 4 = 0 \/ q = Len(step.bus) - 1 } }

LayoutRunning == lay_pos <= Len(lay_steps)

\* One iteration of layout's loop over steps.
LayoutStep ==
    /\ LayoutRunning
    /\ LET step == lay_steps[lay_pos]
           \* If previous step was oversize, extend the bus to compensate.
           ext == IF oversize # 0
                  THEN << Sub(0, base_y, "bus extension",
                              layout_bus_extension(step.bus, oversize)) >>
                  ELSE <<>>
           y1 == base_y + oversize
           h1 == height_since_roboports + oversize
           beacon_start == beacon_start_of(step)
           beacon_end == beacon_end_of(step)
           ov == oversize_of(step)
           \* Check if we need roboport row.
           row == h1 + STEP_SIZE + ov > ROBOPORT_AREA_SIZE
           closing == IF row /\ prev_beacon_start # {}
                      THEN << Sub(CHOOSE x \in prev_beacon_start : TRUE, y1 - 3, "beacons",
                                  layout_beacons(prev_beacon_end
                                                 - CHOOSE x \in prev_beacon_start : TRUE)) >>
                      ELSE <<>>
           pbs == IF row THEN {} ELSE prev_beacon_start
           pbe == IF row THEN 0 ELSE prev_beacon_end
           y2 == IF row THEN y1 + 3 + 4 ELSE y1
           h2 == IF row THEN 3 ELSE h1
           row_start == IF pbs # {}
                        THEN Min2(beacon_start, CHOOSE x \in pbs : TRUE)
                        ELSE beacon_start
           row_end == Max2(beacon_end, pbe)
       IN  /\ roboport_rows' = IF row THEN Append(roboport_rows, [bus |-> step.bus, y |-> y1])
                               ELSE roboport_rows
           /\ placed' = placed \o ext \o closing
                          \o << Sub(0, y2, "step", StepEnts(step)),
                                Sub(row_start, y2 - 3, "beacons",
                                    layout_beacons(row_end - row_start)) >>
           /\ prev_beacon_start' = {beacon_start}
           /\ prev_beacon_end' = beacon_end
           /\ max_width' = Max2(max_width, beacon_end)
           /\ base_y' = y2 + STEP_SIZE
           /\ height_since_roboports' = h2 + STEP_SIZE
           /\ oversize' = ov
    /\ lay_pos' = lay_pos + 1
    /\ UNCHANGED <<lay_steps, lay_final_bus>>
    /\ UNCHANGED <<bmVars, calcVars, splitVars, oilVars, modVars, procVars, routeVars>>

\* After the loop: the last extension, the final beacon row, the final
\* roboport row, and the roboport rows placed at the width now known.
LayoutFinish ==
    /\ lay_pos = Len(lay_steps) + 1
    /\ LET ext == IF oversize # 0
                  THEN << Sub(0, base_y, "bus extension",
                              layout_bus_extension(lay_final_bus, oversize)) >>
                  ELSE <<>>
           y1 == base_y + oversize
           h1 == height_since_roboports + oversize
           closing == IF prev_beacon_start # {}
                      THEN << Sub(CHOOSE x \in prev_beacon_start : TRUE, y1 - 3, "beacons",
                                  layout_beacons(prev_beacon_end
                                                 - CHOOSE x \in prev_beacon_start : TRUE)) >>
                      ELSE <<>>
           rows == IF h1 > ROBOPORT_AREA_SIZE \div 2
                   THEN Append(roboport_rows, [bus |-> lay_final_bus, y |-> y1])
                   ELSE roboport_rows
       IN  /\ roboport_rows' = rows
           /\ placed' = placed \o ext \o closing
                          \o [k \in 1..Len(rows) |->
                                Sub(0, rows[k].y, "roboports",
                                    layout_roboport_row(rows[k].bus, max_width))]
           /\ base_y' = y1
           /\ height_since_roboports' = h1
    /\ lay_pos' = lay_pos + 1
    /\ UNCHANGED <<lay_steps, lay_final_bus, oversize, prev_beacon_start,
                   prev_beacon_end, max_width>>
    /\ UNCHANGED <<bmVars, calcVars, splitVars, oilVars, modVars, procVars, routeVars>>

LayoutReturned == lay_steps # <<>> /\ lay_pos = Len(lay_steps) + 2

MaxLayoutSteps == 5   \* longest list of events given to layout

\* The events given to layout, each with the width and oversize that
\* layout_process reports for it: a Placement with a short process, one with a
\* long process, a rocket silo (oversize 4), and a Compaction.
LayoutStepChoices ==
    { [type |-> "Placement", width |-> 3, process_width |-> 18, oversize |-> 0,
       bus |-> << Line("iron plate", 30), NoLine, Line("water", 30) >>],
      [type |-> "Placement", width |-> 1, process_width |-> 196, oversize |-> 0,
       bus |-> << Line("iron plate", 30) >>],
      [type |-> "Placement", width |-> 2, process_width |-> 15, oversize |-> 4,
       bus |-> << Line("iron plate", 15), Line("water", 30) >>],
      [type |-> "Compaction", width |-> 2, process_width |-> 0, oversize |-> 0,
       bus |-> << Line("iron plate", 15), Line("iron plate", 15) >>] }

FinalBusChoices == { << Line("iron plate", 30) >>,
                     << NoLine, Line("water", 30), Line("iron plate", 15) >> }

InitLayout ==
    /\ lay_steps \in SeqsUpTo(LayoutStepChoices, MaxLayoutSteps)
    /\ lay_final_bus \in FinalBusChoices
    /\ lay_pos = 1
    /\ base_y = 3
    /\ height_since_roboports = ROBOPORT_AREA_SIZE \div 2 + 1
    /\ oversize = 0
    /\ prev_beacon_start = {}
    /\ prev_beacon_end = 0
    /\ max_width = 0
    /\ roboport_rows = <<>>
    /\ placed = <<>>
    /\ BmIdle
    /\ CalcIdle
    /\ SplitIdle
    /\ OilIdle
    /\ ModIdle
    /\ ProcIdle
    /\ RouteIdle

NextLayout == LayoutStep \/ LayoutFinish

SpecLayout == InitLayout /\ [][NextLayout]_vars

-----------------------------------------------------------------------------
(* Replaying the emitted events *)

Last(s) == s[Len(s)]

\* Drop trailing gaps.
Trim(b) ==
    LET live == { i \in 1..Len(b) : b[i] # NoLine }
        n == IF live = {} THEN 0 ELSE CHOOSE i \in live : \A j \in live : j <= i
    IN  [i \in 1..n |-> b[i]]

\* Placement: debit each input index by the process's rate for that line's
\* item, empty the lines that reach 0, drop trailing gaps, then write each
\* output index with its item at the process's output rate.
ReplayPlacement(ev, b) ==
    LET debited == [i \in 1..Len(b) |->
                      IF (i - 1) \in DOMAIN ev.inputs
                      THEN LET left == b[i].throughput - ev.process.ins[b[i].item]
                           IN  IF left = 0 THEN NoLine ELSE Line(b[i].item, left)
                      ELSE b[i]]
        trimmed == Trim(debited)
        outs == DOMAIN ev.outputs
        n == IF outs = {} THEN Len(trimmed)
             ELSE Max2(Len(trimmed), 1 + CHOOSE i \in outs : \A j \in outs : j <= i)
    IN  [i \in 1..n |->
            IF (i - 1) \in outs
            THEN Line(ev.outputs[i - 1].item, ev.process.outs[ev.outputs[i - 1].item])
            ELSE IF i <= Len(trimmed) THEN trimmed[i] ELSE NoLine]

\* One recorded (dst, src) merge-with-overflow.
ReplayMerge(b, pair, bt) ==
    LET dst == pair[1] + 1
        src == pair[2] + 1
        total == b[dst].throughput + b[src].throughput
        limit == line_limit(b[dst].item, bt)
    IN  IF total > limit
        THEN [b EXCEPT ![dst] = Line(b[dst].item, limit),
                       ![src] = Line(b[src].item, total - limit)]
        ELSE [b EXCEPT ![dst] = Line(b[dst].item, total), ![src] = NoLine]

\* One recorded (src, dst) shift.
ReplayShift(b, pair) ==
    [b EXCEPT ![pair[2] + 1] = b[pair[1] + 1], ![pair[1] + 1] = NoLine]

RECURSIVE ReplayMerges(_, _, _, _)
ReplayMerges(b, pairs, k, bt) ==
    IF k > Len(pairs) THEN b
    ELSE ReplayMerges(ReplayMerge(b, pairs[k], bt), pairs, k + 1, bt)

RECURSIVE ReplayShifts(_, _, _)
ReplayShifts(b, pairs, k) ==
    IF k > Len(pairs) THEN b
    ELSE ReplayShifts(ReplayShift(b, pairs[k]), pairs, k + 1)

ReplayCompaction(ev, b, bt) ==
    Trim(ReplayShifts(ReplayMerges(b, ev.compactions, 1, bt), ev.shifts, 1))

ReplayEvent(ev, b, bt) ==
    IF ev.type = "Placement" THEN ReplayPlacement(ev, b)
    ELSE ReplayCompaction(ev, b, bt)

\* The bus after replaying the first k events from the raw inputs.
RECURSIVE Replayed(_)
Replayed(k) ==
    IF k = 0 THEN raw_inputs
    ELSE ReplayEvent(output[k], Replayed(k - 1), belt_type)

\* C1: when run() completes, replaying the emitted events from the raw inputs
\* reproduces, before every event, that event's bus snapshot, and after the
\* last event the final bus.
BusReplay ==
    Completed =>
        /\ \A k \in 1..Len(output) : Replayed(k - 1) = output[k].bus
        /\ Replayed(Len(output)) = bus

\* A completed run with a Placement and with a Compaction that both merged
\* and shifted lines.
BusReplayWitness ==
    /\ Completed
    /\ \E k \in 1..Len(output) : output[k].type = "Placement"
    /\ \E k \in 1..Len(output) :
          /\ output[k].type = "Compaction"
          /\ output[k].compactions # <<>>
          /\ output[k].shifts # <<>>

Placements == { k \in 1..Len(output) : output[k].type = "Placement" }

\* The input `item` of the Placement ev is served by bus index i.
Serves(ev, i, item) ==
    /\ i < Len(ev.bus)
    /\ ev.bus[i + 1] # NoLine
    /\ ev.bus[i + 1].item = item
    /\ ev.bus[i + 1].throughput >= ev.process.ins[item]

\* C2: in every emitted Placement each process input is served by exactly one
\* bus index, which in the snapshot holds a line of the same item with at
\* least the rate the step takes.
InputsLegal ==
    \A k \in Placements :
        LET ev == output[k]
        IN  /\ \A item \in DOMAIN ev.process.ins :
                  Cardinality({ i \in DOMAIN ev.inputs : Serves(ev, i, item) }) = 1
            /\ \A i \in DOMAIN ev.inputs :
                  \E item \in DOMAIN ev.process.ins : Serves(ev, i, item)

\* A Placement with two inputs, one of which takes less than its line carries.
InputsLegalWitness ==
    \E k \in Placements :
        /\ Cardinality(DOMAIN output[k].process.ins) = 2
        /\ \E i \in DOMAIN output[k].inputs :
              output[k].bus[i + 1].throughput
                  > output[k].process.ins[output[k].bus[i + 1].item]

\* Bus index i was a fresh slot or an empty gap in the snapshot of ev.
FreshOrGap(ev, i) == i >= Len(ev.bus) \/ ev.bus[i + 1] = NoLine

\* Bus index i is an input of ev whose whole line the step takes.
EmptiedByStep(ev, i) ==
    /\ i \in DOMAIN ev.inputs
    /\ ev.bus[i + 1].throughput = ev.process.ins[ev.bus[i + 1].item]

\* C3, as stated: every output index of every Placement is a freshly allocated
\* slot or an empty gap of the snapshot.
OutputsFreshOrGap ==
    \A k \in Placements : \A i \in DOMAIN output[k].outputs : FreshOrGap(output[k], i)

\* C3, amended: every output index of every Placement is a freshly allocated
\* slot, an empty gap of the snapshot, or the index of a line that one of the
\* same step's inputs takes whole; an output never lands on a line that is
\* still on the bus after the step's inputs were taken.
OutputsLegal ==
    \A k \in Placements :
        \A i \in DOMAIN output[k].outputs :
            FreshOrGap(output[k], i) \/ EmptiedByStep(output[k], i)

\* A Placement whose output lands on the line its own input has just emptied,
\* although another line is on the bus.
OutputsLegalWitness ==
    \E k \in Placements :
        /\ \E i \in DOMAIN output[k].outputs : EmptiedByStep(output[k], i)
        /\ \E j \in 1..Len(output[k].bus) :
              output[k].bus[j] # NoLine /\ (j - 1) \notin DOMAIN output[k].inputs

\* A compaction can be performed: two lines carry the same item and the left
\* one is not full.
CanCompact(b, bt) ==
    \E i \in 1..Len(b) : \E j \in (i + 1)..Len(b) :
        /\ b[i] # NoLine /\ b[j] # NoLine
        /\ b[i].item = b[j].item
        /\ b[i].throughput < line_limit(b[i].item, bt)

BusStuck ==
    /\ pending # <<>>
    /\ find_candidates(bus, pending) = {}
    /\ ~CanCompact(bus, belt_type)

BusStuckError == "ValueError: Could not compact bus any further"

\* C5: whenever steps are pending, none of them is servable and no compaction
\* can be performed, the next do_one ends the run with the "could not compact"
\* error; the run never returns with steps pending.
StuckBusFails ==
    [][(err = "none" /\ BusStuck) => (err' = BusStuckError /\ pending' # <<>>)]_vars

\* The run has failed on a stuck bus.
StuckBusFailsWitness ==
    err = BusStuckError /\ BusStuck

\* layouter.py, layout_in_outs: the off-ramp primitive of the input at bus_index.
InputPrimitive(ev, bus_index) ==
    LET line == ev.bus[bus_index + 1]
        line_ends == line.throughput = ev.process.ins[line.item]
    IN  IF is_liquid(line.item)
        THEN (IF line_ends THEN "pipe_offramp_all" ELSE "pipe_ramp")
        ELSE (IF line_ends THEN "belt_offramp_all" ELSE "belt_offramp")

OfframpAll == {"belt_offramp_all", "pipe_offramp_all"}

\* add_step has just returned: the last event is its Placement and bus is the
\* bus it left.
AfterAddStep == err = "none" /\ output # <<>> /\ Last(output).type = "Placement"

\* C9: an input gets the 'offramp all' primitive iff the step takes the whole
\* throughput of its line in the snapshot; then the line is gone from the bus
\* when add_step returns (the slot is empty, trimmed away, or holds an output
\* of the same step); otherwise the line stays with the difference.
OfframpAllIffLineEnds ==
    AfterAddStep =>
        LET ev == Last(output)
        IN  \A i \in DOMAIN ev.inputs :
                LET line == ev.bus[i + 1]
                    take == ev.process.ins[line.item]
                IN  /\ (InputPrimitive(ev, i) \in OfframpAll) <=> (take = line.throughput)
                    /\ (InputPrimitive(ev, i) \in OfframpAll) =>
                          \/ i >= Len(bus)
                          \/ bus[i + 1] = NoLine
                          \/ /\ i \in DOMAIN ev.outputs
                             /\ bus[i + 1] = Line(ev.outputs[i].item,
                                                   ev.process.outs[ev.outputs[i].item])
                    /\ (InputPrimitive(ev, i) \notin OfframpAll) =>
                          /\ i < Len(bus)
                          /\ bus[i + 1] = Line(line.item, line.throughput - take)

\* A Placement with one input that ends its line and one that does not.
OfframpAllWitness ==
    /\ AfterAddStep
    /\ \E i \in DOMAIN Last(output).inputs :
          InputPrimitive(Last(output), i) \in OfframpAll
    /\ \E i \in DOMAIN Last(output).inputs :
          InputPrimitive(Last(output), i) \notin OfframpAll

\* C4, as stated: for every emitted event whose bus area the layouter lays out,
\* no two entities of the bus area (infrastructure column, underpasses, pumps,
\* medium poles, on/off-ramps, surfacing points, compaction and shift
\* primitives) cover the same tile, so blit never raises.
NoTileConflict ==
    \A k \in 1..Len(output) :
        layout_bus(output[k], belt_type).err = "none"
            => ~BlitConflict(layout_bus(output[k], belt_type).ents)

\* Sum of f over the finite set S.
RECURSIVE SumOver(_, _)
SumOver(S, f) ==
    IF S = {} THEN 0
    ELSE LET x == CHOOSE y \in S : TRUE IN f[x] + SumOver(S \ {x}, f)

\* What the processes of `results` that have a recipe consume of item i.
Consumed(results, i) ==
    LET made == { k \in DOMAIN results : results[k].recipe # "" }
    IN  SumOver(made, [k \in made |->
                          IF i \in DOMAIN Recipes[results[k].recipe]
                          THEN results[k].throughput * Recipes[results[k].recipe][i]
                          ELSE 0])

Requested(i) == IF i \in DOMAIN calc_items THEN calc_items[i] ELSE 0

Produced(results, i) == IF i \in DOMAIN results THEN results[i].throughput ELSE 0

SolveAllReturned == calc_items # EmptyMap /\ calc_todo = {}

ClaimedLimit(item, bt) ==
    IF item \in LIQUIDS THEN 1020
    ELSE IF bt = "blue" THEN 45
    ELSE IF bt = "red" THEN 30
    ELSE 15

\* C7: every emitted step, maximal or fractional, has each input rate and each
\* output rate at most the line limit of the item for the belt type.
LineCapacity ==
    \A k \in 1..Len(split_steps) :
        LET st == split_steps[k].step
        IN  /\ \A x \in DOMAIN st.ins :
                  st.ins[x].num <= ClaimedLimit(x, split_belt) * st.ins[x].den
            /\ \A x \in DOMAIN st.outs :
                  st.outs[x].num <= ClaimedLimit(x, split_belt) * st.outs[x].den

\* Two processes were split: one into maximal steps and a fractional step, the
\* other (steps < 1) into a fractional step only.
LineCapacityWitness ==
    /\ split_next = 3
    /\ \E k \in 1..Len(split_steps) :
          split_steps[k].of = 1 /\ split_steps[k].step.kind = "maximal"
    /\ \E k \in 1..Len(split_steps) :
          split_steps[k].of = 1 /\ split_steps[k].step.kind = "fractional"
    /\ \A k \in 1..Len(split_steps) :
          split_steps[k].of = 2 => split_steps[k].step.kind = "fractional"
    /\ \E k \in 1..Len(split_steps) : split_steps[k].of = 2


-----------------------------------------------------------------------------
(* The layout as a whole *)

\* Every entity of the laid-out factory, at its position in the root layout.
AllPlaced == UNION { Place(placed[j].x, placed[j].y, placed[j].ents)
                     : j \in 1..Len(placed) }

Roboports == { e \in AllPlaced : e.name = "roboport" }

Abs(n) == IF n < 0 THEN -n ELSE n

Chebyshev(dx, dy) == Max2(Abs(dx), Abs(dy))

\* Entity e is within 55 tiles of roboport r, measured either between the
\* positions the two were placed at, or between their centres (compared in
\* half tiles).
Covered(e, r) ==
    \/ Chebyshev(e.x - r.x, e.y - r.y) <= CONSTRUCT_AREA \div 2
    \/ Chebyshev((2 * e.x + e.w) - (2 * r.x + r.w),
                 (2 * e.y + e.h) - (2 * r.y + r.h)) <= CONSTRUCT_AREA

\* C8: once layout has returned, every placed entity is within 55 tiles
\* (Chebyshev) of some roboport, those being the infrastructure column's and
\* the roboport rows'.
AllCovered ==
    LayoutReturned => \A e \in AllPlaced : \E r \in Roboports : Covered(e, r)

\* Positions in `placed` of the steps' own layouts, in order.
StepIdx == LET S == { j \in 1..Len(placed) : placed[j].name = "step" }
           IN  [i \in 1..Cardinality(S) |->
                  CHOOSE j \in S : Cardinality({ l \in S : l < j }) = i - 1]

\* The steps whose successor has been settled: placed, or layout has returned.
Settled == { i \in 1..Len(StepIdx) : i < Len(StepIdx) \/ LayoutReturned }

\* What follows step i: the position in `placed` of the next step's layout
\* (one past the end if i is the last step) and the next bus.
FollowIdx(i) == IF i < Len(StepIdx) THEN StepIdx[i + 1] ELSE Len(placed) + 1

FollowBus(i) == IF i < Len(lay_steps) THEN lay_steps[i + 1].bus ELSE lay_final_bus

ExtensionsAfter(i) ==
    { j \in (StepIdx[i] + 1)..(FollowIdx(i) - 1) : placed[j].name = "bus extension" }

\* The tiles a straight run down of height k takes for every live line of b,
\* with what runs there.
ExtensionTiles(b, k) ==
    { [x |-> bus_x(p), y |-> r - 2,
       name |-> IF is_liquid(b[p + 1].item) THEN "pipe" ELSE "belt"]
      : p \in { q \in 0..(Len(b) - 1) : b[q + 1] # NoLine }, r \in 0..(k - 1) }

\* C10: a step with oversize k > 0 is followed, right after its own beacon
\* row and before anything of the next step (or of the end of the layout), by
\* exactly one bus extension, of height k, carrying exactly the live lines of
\* the next event's bus (the final bus after the last step), and the next step
\* lies k rows lower for it; a step with oversize 0 is followed by none.
OversizeExtension ==
    \A i \in Settled :
        LET k == oversize_of(lay_steps[i])
            j == StepIdx[i]
            gap == IF i < Len(StepIdx) THEN placed[FollowIdx(i)].y - placed[j].y ELSE 0
        IN  /\ k = 0 => ExtensionsAfter(i) = {}
            /\ k > 0 =>
                 /\ ExtensionsAfter(i) = {j + 2}
                 /\ placed[j + 2].x = 0
                 /\ placed[j + 2].y = placed[j].y + STEP_SIZE
                 /\ { [x |-> e.x, y |-> e.y, name |-> e.name] : e \in placed[j + 2].ents }
                      = ExtensionTiles(FollowBus(i), k)
                 /\ \A e \in placed[j + 2].ents : e.w = 1 /\ e.h = 1
            /\ i < Len(StepIdx) => gap \in {STEP_SIZE + k, STEP_SIZE + k + 3 + 4}

\* An oversize step has been followed by its extension before a bus with a gap
\* and a liquid line, and a later step placed below it.
OversizeExtensionWitness ==
    \E i \in Settled :
        /\ oversize_of(lay_steps[i]) > 0
        /\ i < Len(StepIdx)
        /\ \E p \in 1..Len(FollowBus(i)) : FollowBus(i)[p] = NoLine
        /\ \E p \in 1..Len(FollowBus(i)) :
              FollowBus(i)[p] # NoLine /\ is_liquid(FollowBus(i)[p].item)
        /\ ExtensionsAfter(i) # {}


-----------------------------------------------------------------------------
(* calculator.py: solve_oil                                                    *)
(*                                                                             *)
(* solve_oil works on a dict {item: throughput} of numbers and merges such     *)
(* dicts by adding the amounts, as merge_into of the single-file version       *)
(* (src/factoriocalc.py) does; this is the reading modelled here.              *)

\* fractions.Fraction: numerator n and denominator d > 0, in lowest terms.
RECURSIVE GCD(_, _)
GCD(a, b) == IF b = 0 THEN a ELSE GCD(b, a % b)

Fraction(n, d) ==
    LET sn == IF d < 0 THEN -n ELSE n
        sd == IF d < 0 THEN -d ELSE d
        g == GCD(IF sn < 0 THEN -sn ELSE sn, sd)
    IN  [n |-> sn \div g, d |-> sd \div g]

Whole(n) == Fraction(n, 1)

\* The operations cancel common factors before they multiply, which keeps
\* the intermediate products small; the values are those of Fraction's.
AbsInt(n) == IF n < 0 THEN -n ELSE n

FAdd(a, b) ==
    LET g == GCD(a.d, b.d)
    IN  Fraction(a.n * (b.d \div g) + b.n * (a.d \div g), (a.d \div g) * b.d)

FNeg(a) == [n |-> -a.n, d |-> a.d]

FSub(a, b) == FAdd(a, FNeg(b))

FMul(a, b) ==
    LET g1 == GCD(AbsInt(a.n), b.d)
        g2 == GCD(AbsInt(b.n), a.d)
    IN  Fraction((a.n \div g1) * (b.n \div g2), (a.d \div g2) * (b.d \div g1))

FDiv(a, b) == FMul(a, Fraction(b.d, b.n))

FLess(a, b) == FSub(a, b).n < 0

\* dict.get(k, 0) and dict.pop(k, 0) of a dict of amounts.
AmountOf(t, k) == IF k \in DOMAIN t THEN t[k] ELSE Whole(0)

Without(t, keys) == [k \in DOMAIN t \ keys |-> t[k]]

\* merge_into on dicts of amounts: a afterwards.
merge_amounts(a, b) ==
    [k \in DOMAIN a \cup DOMAIN b |->
        IF k \in DOMAIN b THEN FAdd(AmountOf(a, k), b[k]) ELSE a[k]]

\* {k: v * factor for k, v in inputs.items()}
Scaled(inputs, factor) == [k \in DOMAIN inputs |-> FMul(Whole(inputs[k]), factor)]

HEAVY_PER_PROCESS == 10

LIGHT_PER_PROCESS == 45

PETROL_PER_PROCESS == 55

PROCESS_INPUTS == ("crude oil" :> 100) @@ ("water" :> 50)

HEAVY_LIGHT_IN == 40

HEAVY_LIGHT_OUT == 30

LIGHT_PETROL_IN == 30

LIGHT_PETROL_OUT == 20

HEAVY_LIGHT_INPUTS == ("water" :> 30)

LIGHT_PETROL_INPUTS == ("water" :> 30)

OilProducts == {"heavy oil", "light oil", "petroleum"}

\* heavy_cracking += refineries_for_petrol
heavy_cracking_untouched(heavy_cracking, refineries_for_petrol) == heavy_cracking

heavy_cracking_for_petrol(heavy_cracking, refineries_for_petrol) ==
    FAdd(heavy_cracking, refineries_for_petrol)

\* The per-process amounts solve_oil derives from the recipes before it
\* starts counting refineries.
oil_rates(recipes) ==
    LET light_per_heavy == FDiv(Whole(HEAVY_LIGHT_OUT),
                                FMul(Whole(HEAVY_LIGHT_IN), recipes.cracking_input_factor))
        light_per_process == FDiv(Whole(LIGHT_PER_PROCESS), recipes.refinery_input_factor)
        heavy_per_process == FDiv(Whole(HEAVY_PER_PROCESS), recipes.refinery_input_factor)
    IN  [light_per_heavy |-> light_per_heavy,
         petrol_per_light |-> FDiv(Whole(LIGHT_PETROL_OUT),
                                   FMul(Whole(LIGHT_PETROL_IN),
                                        recipes.cracking_input_factor)),
         petrol_per_process |-> FDiv(Whole(PETROL_PER_PROCESS),
                                     recipes.refinery_input_factor),
         light_per_process |-> light_per_process,
         heavy_per_process |-> heavy_per_process,
         cascade_light |-> FAdd(light_per_process,
                                FMul(heavy_per_process, light_per_heavy))]

\* "heavy oil first, to get an absolute minimum": the refineries for the
\* heavy oil demand.
oil_heavy(recipes, targets, rates) ==
    FDiv(AmountOf(targets, "heavy oil"),
         FMul(recipes.refinery_throughput, rates.heavy_per_process))

\* The light oil section: [excesses, heavy_cracking, refineries].
oil_light(recipes, targets, rates, refineries) ==
    LET extra_light == FSub(AmountOf(targets, "light oil"),
                            FMul(FMul(refineries, recipes.refinery_throughput),
                                 rates.light_per_process))
        light_throughput == FMul(recipes.refinery_throughput, rates.cascade_light)
        refineries_for_light == FDiv(extra_light, light_throughput)
    IN  IF FLess(extra_light, Whole(0))
        THEN [excesses |-> ("light oil" :> extra_light),
              heavy_cracking |-> Whole(0),
              refineries |-> refineries]
        ELSE [excesses |-> <<>>,
              heavy_cracking |-> refineries_for_light,
              refineries |-> FAdd(refineries, refineries_for_light)]

\* The petroleum section: [excesses, heavy_cracking, light_cracking, refineries].
oil_petrol(recipes, targets, rates, light) ==
    LET extra_petrol == FSub(AmountOf(targets, "petroleum"),
                             FMul(FMul(light.refineries, recipes.refinery_throughput),
                                  rates.petrol_per_process))
        petrol_available == FMul(FNeg(AmountOf(light.excesses, "light oil")),
                                 rates.petrol_per_light)
        petrol_throughput ==
            FMul(recipes.refinery_throughput,
                 FAdd(rates.petrol_per_process,
                      FMul(rates.petrol_per_light, rates.cascade_light)))
        refineries_for_petrol == FDiv(FSub(extra_petrol, petrol_available),
                                      petrol_throughput)
    IN  IF FLess(extra_petrol, Whole(0))
        THEN [excesses |-> ("petroleum" :> extra_petrol) @@ light.excesses,
              heavy_cracking |-> light.heavy_cracking,
              light_cracking |-> Whole(0),
              refineries |-> light.refineries]
        ELSE IF FLess(extra_petrol, petrol_available)
        THEN [excesses |-> [light.excesses EXCEPT !["light oil"] =
                               FAdd(@, FDiv(extra_petrol, rates.petrol_per_light))],
              heavy_cracking |-> light.heavy_cracking,
              light_cracking |-> FMul(recipes.refinery_throughput, extra_petrol),
              refineries |-> light.refineries]
        ELSE [excesses |-> Without(light.excesses, {"light oil"}),
              heavy_cracking |->
                  heavy_cracking_for_petrol(light.heavy_cracking, refineries_for_petrol),
              light_cracking |-> FAdd(FMul(recipes.refinery_throughput, petrol_available),
                                      refineries_for_petrol),
              refineries |-> FAdd(light.refineries, refineries_for_petrol)]

\* The numbers of crackers: [heavy_crackers, light_crackers].
oil_crackers(recipes, rates, petrol) ==
    [heavy_crackers |->
        FDiv(FMul(FMul(petrol.heavy_cracking, recipes.refinery_throughput),
                  rates.heavy_per_process),
             FMul(Whole(HEAVY_LIGHT_IN), recipes.cracking_throughput)),
     light_crackers |->
        FDiv(FMul(FMul(petrol.light_cracking, recipes.refinery_throughput),
                  rates.cascade_light),
             FMul(Whole(LIGHT_PETROL_IN), recipes.cracking_throughput))]

\* "build new inputs": the returned (targets, further_inputs, buildings).
oil_result(recipes, targets, petrol, crackers) ==
    LET in1 == IF crackers.light_crackers # Whole(0)
               THEN merge_amounts(<<>>,
                        Scaled(LIGHT_PETROL_INPUTS,
                               FMul(crackers.light_crackers, recipes.cracking_throughput)))
               ELSE <<>>
        in2 == IF crackers.heavy_crackers # Whole(0)
               THEN merge_amounts(in1,
                        Scaled(HEAVY_LIGHT_INPUTS,
                               FMul(crackers.heavy_crackers, recipes.cracking_throughput)))
               ELSE in1
        in3 == IF petrol.refineries # Whole(0)
               THEN merge_amounts(in2,
                        Scaled(PROCESS_INPUTS,
                               FMul(petrol.refineries, recipes.refinery_throughput)))
               ELSE in2
    IN  [targets |-> merge_amounts(Without(targets, OilProducts), petrol.excesses),
         further_inputs |-> in3,
         buildings |->
            (IF crackers.light_crackers # Whole(0)
             THEN << <<"oil cracking", "Light Oil Cracking", crackers.light_crackers>> >>
             ELSE <<>>)
            \o (IF crackers.heavy_crackers # Whole(0)
                THEN << <<"oil cracking", "Heavy Oil Cracking", crackers.heavy_crackers>> >>
                ELSE <<>>)
            \o (IF petrol.refineries # Whole(0)
                THEN << <<"oil products", "Advanced Oil Processing", petrol.refineries>> >>
                ELSE <<>>)]

\* solve_oil(recipes, targets), section after section, each on the values the
\* one before has computed.
solve_oil(recipes, targets) ==
    CHOOSE result \in
        { oil_result(recipes, targets, petrol, crackers) :
            <<petrol, crackers>> \in
                { <<pt, oil_crackers(recipes, rt, pt)>> :
                    <<rt, pt>> \in
                        { <<r, oil_petrol(recipes, targets, r, light)>> :
                            <<r, light>> \in
                                { <<r0, oil_light(recipes, targets, r0,
                                                  oil_heavy(recipes, targets, r0))>> :
                                    r0 \in { oil_rates(recipes) } } } } } : TRUE

SolveOil ==
    /\ oil_targets # <<>> /\ oil_out = <<>>
    /\ oil_out' = << solve_oil(oil_recipes, oil_targets) >>
    /\ UNCHANGED <<oil_recipes, oil_targets>>
    /\ UNCHANGED <<bmVars, calcVars, splitVars, layVars, modVars, procVars, routeVars>>

\* The recipes file's 'oil products' (refinery, 5 seconds) and 'oil cracking'
\* (chemical plant, 3 seconds), without and with speed and productivity
\* modules: buildings' throughput, and the amount of "dummy" one run takes.
RefineryThroughputs == { Fraction(1, 5), Fraction(2, 5) }

CrackingThroughputs == { Fraction(1, 3), Fraction(5, 6) }

InputFactors == { Whole(1), Fraction(5, 6) }

OilRecipes ==
    [refinery_throughput : RefineryThroughputs, refinery_input_factor : InputFactors,
     cracking_throughput : CrackingThroughputs, cracking_input_factor : InputFactors]

\* The oil products asked for, next to something that is no oil product.
OilDemand(heavy, light, petrol) ==
    ("plastic bar" :> Whole(5))
    @@ (IF heavy = 0 THEN <<>> ELSE ("heavy oil" :> Whole(heavy)))
    @@ (IF light = 0 THEN <<>> ELSE ("light oil" :> Whole(light)))
    @@ (IF petrol = 0 THEN <<>> ELSE ("petroleum" :> Whole(petrol)))

OilTargets == { OilDemand(h, l, p) : h \in {0, 10}, l \in {0, 40, 60}, p \in {0, 20, 100} }

InitOil ==
    /\ oil_recipes \in OilRecipes
    /\ oil_targets \in OilTargets
    /\ oil_out = <<>>
    /\ BmIdle
    /\ CalcIdle
    /\ SplitIdle
    /\ LayIdle
    /\ ModIdle
    /\ ProcIdle
    /\ RouteIdle

NextOil == SolveOil

SpecOil == InitOil /\ [][NextOil]_vars

\* solve_oil has returned for the request {petroleum: 100, light oil: 40,
\* heavy oil: 10}.
OilSplitSolved ==
    /\ oil_out # <<>>
    /\ oil_targets = OilDemand(10, 40, 100)

Built(name) == \E k \in 1..Len(oil_out[1].buildings) : oil_out[1].buildings[k][2] = name

RawAdded(item) ==
    /\ item \in DOMAIN oil_out[1].further_inputs
    /\ FLess(Whole(0), oil_out[1].further_inputs[item])

-----------------------------------------------------------------------------
(* datafile.py: Datafile.calc_mods                                             *)

\* Datafile.modules: the modules the recipes file declares, with their speed
\* and productivity effects.
Modules ==
    ("prod 3" :> [speed |-> Fraction(-3, 20), prod |-> Fraction(1, 10)])
    @@ ("speed 3" :> [speed |-> Fraction(1, 2), prod |-> Whole(0)])

\* if module.prod and not recipe.can_prod: continue
skips_nothing(module, recipe) == FALSE

skips(module, recipe) == module.prod # Whole(0) /\ ~recipe.can_prod

\* The while loop of calc_mods. self.modules[name] raises KeyError for a name
\* that is no module.
RECURSIVE calc_mods_loop(_, _, _, _, _)
calc_mods_loop(recipe, used, speed_total, prod_total, to_consider) ==
    IF ~(Len(used) < recipe.mod_slots /\ to_consider # <<>>)
    THEN [err |-> "none",
          speed |-> FMul(recipe.speed, FAdd(Whole(1), speed_total)),
          prod |-> FAdd(Whole(1), prod_total),
          used |-> used]
    ELSE LET name == Head(to_consider)
             rest == Tail(to_consider)
         IN  IF name \notin DOMAIN Modules
             THEN [err |-> "KeyError", speed |-> Whole(0), prod |-> Whole(0), used |-> used]
             ELSE IF skips(Modules[name], recipe)
                  THEN calc_mods_loop(recipe, used, speed_total, prod_total, rest)
                  ELSE calc_mods_loop(recipe, Append(used, name),
                                      FAdd(speed_total, Modules[name].speed),
                                      FAdd(prod_total, Modules[name].prod), rest)

calc_mods(recipe, priorities, beacon_speed) ==
    calc_mods_loop(recipe, <<>>, beacon_speed, Whole(0), priorities)

CalcMods ==
    /\ mod_recipe # <<>> /\ mod_out = <<>>
    /\ mod_out' = << calc_mods(mod_recipe, mod_priorities, mod_beacon_speed) >>
    /\ UNCHANGED <<mod_recipe, mod_priorities, mod_beacon_speed>>
    /\ UNCHANGED <<bmVars, calcVars, splitVars, layVars, oilVars, procVars, routeVars>>

MaxPriorities == 4   \* longest module priority list

\* Names a priority list is made of: the declared modules and one that is not.
PriorityNames == DOMAIN Modules \cup {"speed 9"}

\* Recipes by what calc_mods reads of them: whether productivity is allowed,
\* and the building's base speed, module slots and can_beacon.
ModRecipes ==
    [can_prod : BOOLEAN, speed : {Fraction(5, 4)}, mod_slots : {0, 2, 3, 4},
     can_beacon : BOOLEAN]

InitMods ==
    /\ mod_recipe \in ModRecipes
    /\ mod_priorities \in SeqsUpTo(PriorityNames, MaxPriorities)
    /\ mod_beacon_speed \in {Whole(0), Whole(2)}
    /\ mod_out = <<>>
    /\ BmIdle
    /\ CalcIdle
    /\ SplitIdle
    /\ LayIdle
    /\ OilIdle
    /\ ProcIdle
    /\ RouteIdle

NextMods == CalcMods

SpecMods == InitMods /\ [][NextMods]_vars

Range(seq) == { seq[k] : k \in 1..Len(seq) }

UnknownNames == Range(mod_priorities) \ DOMAIN Modules

\* C12: calc_mods fails whenever the priority list holds a name that is not a
\* declared module, whatever the recipe and the building (also with zero
\* module slots, and with the name behind enough entries to fill the slots).
UnknownModuleFails ==
    (mod_out # <<>> /\ UnknownNames # {}) => mod_out[1].err # "none"


\* The entries of a list of declared modules that the recipe can take: all
\* but those with a productivity effect when the recipe cannot take
\* productivity.
Eligible(recipe, priorities) ==
    SelectSeq(priorities,
              LAMBDA name : ~(Modules[name].prod # Whole(0) /\ ~recipe.can_prod))

\* C20: for a priority list of declared modules, the installed modules are
\* the first min(module slots, number of eligible entries) eligible entries,
\* in the order of the list; so they never exceed the slots, and hold no
\* productivity module for a recipe that cannot take productivity.
ModuleFill ==
    (mod_out # <<>> /\ UnknownNames = {}) =>
        LET eligible == Eligible(mod_recipe, mod_priorities)
            used == mod_out[1].used
        IN  /\ mod_out[1].err = "none"
            /\ used = SubSeq(eligible, 1, Min2(mod_recipe.mod_slots, Len(eligible)))
            /\ Len(used) <= mod_recipe.mod_slots
            /\ ~mod_recipe.can_prod =>
                  \A k \in 1..Len(used) : Modules[used[k]].prod = Whole(0)

\* A recipe that cannot take productivity, in a building with 2 slots, has
\* been given [B, A, B, A] (B with a productivity effect) and got A, A.
ModuleFillWitness ==
    /\ mod_out # <<>>
    /\ mod_priorities = <<"prod 3", "speed 3", "prod 3", "speed 3">>
    /\ mod_recipe.mod_slots = 2 /\ ~mod_recipe.can_prod
    /\ mod_out[1].used = <<"speed 3", "speed 3">>

\* C21: a recipe whose building is not affected by beacons (can_beacon false)
\* gets the speed factor it gets with beacon speed 0, whatever the beacon speed.
BeaconImmunity ==
    (mod_out # <<>> /\ mod_out[1].err = "none" /\ ~mod_recipe.can_beacon) =>
        mod_out[1].speed = calc_mods(mod_recipe, mod_priorities, Whole(0)).speed


-----------------------------------------------------------------------------
(* The belt manager's compaction pass *)

\* C13: compact raises only when its pass made neither a compaction nor a
\* shift, so the bus it leaves behind when it raises is the bus it found; a
\* pass that made a shift but no compaction appends a Compaction event with
\* the shifts.
CompactRaisesOnlyUnchanged ==
    [][(err = "none" /\ err' = BusStuckError)
          => (bus' = bus /\ Len(output') = Len(output))]_vars


\* The events whose effect can be read off the next snapshot: all but the
\* last, and the last as well while nothing has raised since.
SettledEvents == { k \in 1..Len(output) : k < Len(output) \/ err = "none" }

\* The bus right after event k.
BusAfter(k) == IF k < Len(output) THEN output[k + 1].bus ELSE bus

\* The line at 0-based index i of bus b; a gap beyond its end.
LineAt(b, i) == IF i + 1 <= Len(b) THEN b[i + 1] ELSE NoLine

CompactionEvents == { k \in SettledEvents : output[k].type = "Compaction" }

\* C14: for every recorded compaction (dst, src), with d and s the two lines'
\* throughputs before and L the item's line limit: dst < src and both carry
\* the same item; if d + s <= L then dst carries d + s afterwards and src is
\* empty, otherwise dst carries L and src carries d + s - L, which is below L.
MergeRule ==
    \A k \in CompactionEvents :
        \A c \in 1..Len(output[k].compactions) :
            LET dst == output[k].compactions[c][1]
                src == output[k].compactions[c][2]
                before == output[k].bus
                after == BusAfter(k)
                d == LineAt(before, dst).throughput
                s == LineAt(before, src).throughput
                L == line_limit(LineAt(before, dst).item, belt_type)
            IN  /\ dst < src
                /\ LineAt(before, dst) # NoLine /\ LineAt(before, src) # NoLine
                /\ LineAt(before, dst).item = LineAt(before, src).item
                /\ IF d + s <= L
                   THEN /\ LineAt(after, dst) = Line(LineAt(before, dst).item, d + s)
                        /\ LineAt(after, src) = NoLine
                   ELSE /\ LineAt(after, dst) = Line(LineAt(before, dst).item, L)
                        /\ LineAt(after, src) = Line(LineAt(before, src).item, d + s - L)
                        /\ d + s - L < L

\* A compaction has overflowed: both lines remain.
MergeRuleWitness ==
    \E k \in CompactionEvents :
        \E c \in 1..Len(output[k].compactions) :
            LET dst == output[k].compactions[c][1]
                src == output[k].compactions[c][2]
            IN  /\ LineAt(output[k].bus, dst).throughput + LineAt(output[k].bus, src).throughput
                      > line_limit(LineAt(output[k].bus, dst).item, belt_type)
                /\ LineAt(BusAfter(k), src) # NoLine


\* The bus indexes an event's compactions and shifts name.
Named(ev) ==
    UNION { {ev.compactions[c][1], ev.compactions[c][2]} : c \in 1..Len(ev.compactions) }
    \cup UNION { {ev.shifts[c][1], ev.shifts[c][2]} : c \in 1..Len(ev.shifts) }

\* C15: for every recorded shift (src, dst): dst < src; before, the slots
\* dst..src-1 were empty, slot dst-1 was occupied (or dst = 0) and no line
\* left of src carried the same item below its limit; afterwards the line
\* sits at dst with its item and throughput, and src is empty. Lines that no
\* compaction or shift of the event names are unchanged.
ShiftRule ==
    \A k \in CompactionEvents :
        LET before == output[k].bus
            after == BusAfter(k)
        IN  /\ \A c \in 1..Len(output[k].shifts) :
                  LET src == output[k].shifts[c][1]
                      dst == output[k].shifts[c][2]
                  IN  /\ dst < src
                      /\ LineAt(before, src) # NoLine
                      /\ \A i \in dst..(src - 1) : LineAt(before, i) = NoLine
                      /\ dst = 0 \/ LineAt(before, dst - 1) # NoLine
                      /\ \A i \in 0..(src - 1) :
                            ~ /\ LineAt(before, i) # NoLine
                              /\ LineAt(before, i).item = LineAt(before, src).item
                              /\ LineAt(before, i).throughput
                                    < line_limit(LineAt(before, i).item, belt_type)
                      /\ LineAt(after, dst) = LineAt(before, src)
                      /\ LineAt(after, src) = NoLine
            /\ \A i \in 0..(Len(before) - 1) :
                  i \notin Named(output[k]) => LineAt(after, i) = LineAt(before, i)

\* An event has recorded a shift next to a compaction, and the shifted line
\* sits at its new place.
ShiftRuleWitness ==
    \E k \in CompactionEvents :
        /\ output[k].shifts # <<>>
        /\ output[k].compactions # <<>>
        /\ LineAt(BusAfter(k), output[k].shifts[1][2])
              = LineAt(output[k].bus, output[k].shifts[1][1])


-----------------------------------------------------------------------------
(* add_step's y_slots *)

\* The y_slots a Placement assigns, to inputs and to outputs.
InputSlots(ev) == { ev.inputs[i] : i \in DOMAIN ev.inputs }

OutputSlots(ev) == { ev.outputs[i].y_slot : i \in DOMAIN ev.outputs }

InsAndOuts(ev) ==
    Cardinality(DOMAIN ev.process.ins) + Cardinality(DOMAIN ev.process.outs)

\* C16: a Placement whose step has at most 6 inputs plus outputs assigns
\* y_slot 0 to none of them; y_slot 0 is assigned only with more than 6; and
\* every assigned y_slot is one of the rows 0..6.
ReservedSlotZero ==
    \A k \in Placements :
        LET slots == InputSlots(output[k]) \cup OutputSlots(output[k])
        IN  /\ InsAndOuts(output[k]) <= 6 => 0 \notin slots
            /\ 0 \in slots => InsAndOuts(output[k]) > 6
            /\ slots \subseteq 0..6

\* Both have happened: a Placement with inputs and an output that leaves
\* y_slot 0 free, and one with seven inputs that uses y_slot 0.
ReservedSlotZeroWitness ==
    /\ \E k \in Placements :
          /\ InsAndOuts(output[k]) = 7
          /\ 0 \in InputSlots(output[k])
    /\ \A k \in Placements : InsAndOuts(output[k]) = 7

ReservedSlotZeroFew ==
    \E k \in Placements :
        /\ InsAndOuts(output[k]) = 3
        /\ InputSlots(output[k]) = {1, 2} /\ OutputSlots(output[k]) = {6}

AddStepAssertions ==
    { "AssertionError: inputs", "AssertionError: outputs",
      "AssertionError: inputs and outputs overlap" }

\* C17: none of add_step's three assertions fails, whatever the step's
\* number of inputs and outputs.
AssertionsHold == err \notin AddStepAssertions


-----------------------------------------------------------------------------
(* add_step's output allocation *)

\* The bus of the Placement ev at the moment its outputs are allocated: the
\* snapshot with the step's inputs taken from the lines the event names.
AfterInputs(ev) ==
    PopTrailing(
        [i \in 1..Len(ev.bus) |->
            IF (i - 1) \in DOMAIN ev.inputs
            THEN IF ev.bus[i].throughput = ev.process.ins[ev.bus[i].item]
                 THEN NoLine
                 ELSE Line(ev.bus[i].item,
                           ev.bus[i].throughput - ev.process.ins[ev.bus[i].item])
            ELSE ev.bus[i]])

Gaps(b) == { i \in 0..(Len(b) - 1) : b[i + 1] = NoLine }

\* The n slots that n allocations in a row use: the gaps of b from the left,
\* then new slots at the right end.
FirstFree(b, n) ==
    LET g == Cardinality(Gaps(b))
    IN  IF n <= g
        THEN { i \in Gaps(b) : Cardinality({ j \in Gaps(b) : j < i }) < n }
        ELSE Gaps(b) \cup (Len(b)..(Len(b) + n - g - 1))

SettledPlacements == Placements \cap SettledEvents

\* C18: the outputs of a Placement sit at as many distinct bus indexes as the
\* step has outputs; these are the leftmost empty slots of the bus as it is
\* once the inputs are taken, then new slots appended at the right end; after
\* the step each holds a line of exactly the output's item and rate, and every
\* other slot of the bus is as it was (no output is merged into a line).
OutputAllocation ==
    \A k \in SettledPlacements :
        LET ev == output[k]
            after == AfterInputs(ev)
            idx == DOMAIN ev.outputs
        IN  /\ Cardinality(idx) = Cardinality(DOMAIN ev.process.outs)
            /\ idx = FirstFree(after, Cardinality(DOMAIN ev.process.outs))
            /\ \A i \in idx :
                  /\ LineAt(after, i) = NoLine
                  /\ ev.outputs[i].item \in DOMAIN ev.process.outs
                  /\ LineAt(BusAfter(k), i) =
                        Line(ev.outputs[i].item, ev.process.outs[ev.outputs[i].item])
            /\ \A i \in (0..(Len(after) - 1)) \ idx :
                  LineAt(BusAfter(k), i) = LineAt(after, i)
            /\ \A i \in idx : \A j \in idx :
                  ev.outputs[i].item = ev.outputs[j].item => i = j

\* A step with two outputs has put one into a gap left of a line that is
\* still on the bus and the other into a new slot at the right end.
OutputAllocationWitness ==
    \E k \in SettledPlacements :
        LET after == AfterInputs(output[k])
        IN  /\ Cardinality(DOMAIN output[k].outputs) = 2
            /\ \E i \in DOMAIN output[k].outputs :
                  /\ i < Len(after)
                  /\ \E j \in (i + 1)..(Len(after) - 1) : LineAt(after, j) # NoLine
            /\ \E i \in DOMAIN output[k].outputs : i = Len(after)


-----------------------------------------------------------------------------
(* line_take's trailing gaps *)

EndsInLine(b) == b = <<>> \/ b[Len(b)] # NoLine

\* C19: the bus is empty or ends in a line, now and in every snapshot; no line
\* on it carries a throughput of 0; and when the rightmost slot of an event's
\* snapshot is empty after the event, the bus is shorter than the snapshot.
NoTrailingGap ==
    /\ EndsInLine(bus)
    /\ \A i \in 1..Len(bus) : bus[i] # NoLine => bus[i].throughput > 0
    /\ \A k \in 1..Len(output) : EndsInLine(output[k].bus)
    /\ \A k \in SettledEvents :
          (/\ output[k].bus # <<>>
           /\ LineAt(BusAfter(k), Len(output[k].bus) - 1) = NoLine)
              => Len(BusAfter(k)) < Len(output[k].bus)

\* The rightmost line has emptied next to a gap: the bus has shrunk by more
\* than one slot and lines are left on it.
NoTrailingGapWitness ==
    \E k \in SettledEvents :
        /\ BusAfter(k) # <<>>
        /\ Len(BusAfter(k)) + 2 <= Len(output[k].bus)


-----------------------------------------------------------------------------
(* processor.py: Processor.match_score, find_processor, determine_bodies *)

InOutKinds(liquid, belt, halfbelt) ==
    [liquid |-> liquid, belt |-> belt, halfbelt |-> halfbelt]

Processor(name, buildings, inputs, outputs, base_buildings, per_body_buildings) ==
    [name |-> name, buildings |-> buildings, inputs |-> inputs, outputs |-> outputs,
     base_buildings |-> base_buildings, per_body_buildings |-> per_body_buildings]

\* The processors the module registers, in the order it registers them.
PROCESSORS ==
    << Processor("1 -> 1", {"furnace", "assembler", "chemical plant"},
                 InOutKinds(0, 1, 0), InOutKinds(0, 1, 0), 0, 2),
       Processor("oil refining", {"refinery"},
                 InOutKinds(2, 0, 0), InOutKinds(3, 0, 0), 1, 1),
       Processor("2 + half -> half", {"assembler"},
                 InOutKinds(0, 2, 1), InOutKinds(0, 0, 1), 0, 4),
       Processor("2 -> 1", {"assembler"},
                 InOutKinds(0, 2, 0), InOutKinds(0, 1, 0), 0, 4),
       Processor("3x half -> full", {"assembler"},
                 InOutKinds(0, 0, 3), InOutKinds(0, 1, 0), 0, 2),
       Processor("oil cracking", {"chemical plant"},
                 InOutKinds(2, 0, 0), InOutKinds(1, 0, 0), 0, 2),
       Processor("2 fluids to belt", {"chemical plant"},
                 InOutKinds(2, 0, 0), InOutKinds(0, 1, 0), 0, 2),
       Processor("1 liquid + 2 solids -> liquid", {"chemical plant"},
                 InOutKinds(1, 2, 0), InOutKinds(1, 0, 0), 0, 2),
       Processor("1 liquid + 2 solids -> solid", {"chemical plant"},
                 InOutKinds(1, 0, 2), InOutKinds(0, 1, 0), 0, 2),
       Processor("assembler with liquid input", {"assembler"},
                 InOutKinds(1, 1, 1), InOutKinds(0, 0, 1), 0, 2),
       Processor("6 input assembler", {"assembler"},
                 InOutKinds(0, 0, 6), InOutKinds(0, 0, 1), 0, 1),
       Processor("lab", {"lab"},
                 InOutKinds(0, 0, 7), InOutKinds(0, 0, 0), 0, 4),
       Processor("rocket silo", {"rocket silo"},
                 InOutKinds(0, 0, 4), InOutKinds(0, 0, 1), 0, 1) >>

\* One turn of match_score's loop over (have, need); <<>> stands for "return".
side_score(have, need) ==
    IF have.liquid # need.liquid THEN <<>>
    ELSE IF have.belt < need.belt THEN <<>>
    ELSE IF (have.belt - need.belt) + have.halfbelt < need.halfbelt THEN <<>>
    ELSE << (have.liquid - need.liquid)
               + (have.belt - need.belt) + have.halfbelt - need.halfbelt,
            Min2(have.belt - need.belt, need.halfbelt) >>

\* match_score: the tuple (unused, underused), or <<>> for None.
match_score(processor, building, inputs, outputs) ==
    IF building \notin processor.buildings THEN <<>>
    ELSE LET out_side == side_score(processor.outputs, outputs)
             in_side == side_score(processor.inputs, inputs)
         IN  IF out_side = <<>> \/ in_side = <<>> THEN <<>>
             ELSE << out_side[1] + in_side[1], out_side[2] + in_side[2] >>

\* "if processor.match_score(...)": None is false, a tuple of two numbers is
\* true whatever the numbers.
truthy_if_nonzero(score) == score # <<>> /\ score # <<0, 0>>

Truthy(score) == score # <<>>

\* Python's order on the score tuples.
ScoreLess(a, b) == a[1] < b[1] \/ (a[1] = b[1] /\ a[2] < b[2])

\* find_processor's result: [err, ret, cache]; ret is the position of the
\* processor in PROCESSORS, 0 when it raises.
find_processor(cache, building, inputs, outputs) ==
    LET cache_key == <<building, inputs, outputs>>
        candidates == { i \in 1..Len(PROCESSORS) :
                          Truthy(match_score(PROCESSORS[i], building, inputs, outputs)) }
        score(i) == match_score(PROCESSORS[i], building, inputs, outputs)
        \* min(candidates, key=...): the first of the candidates with the least score
        ret == CHOOSE i \in candidates :
                  \A j \in candidates :
                      /\ ~ScoreLess(score(j), score(i))
                      /\ score(j) = score(i) => i <= j
    IN  IF cache_key \in DOMAIN cache
        THEN [err |-> "none", ret |-> cache[cache_key], cache |-> cache]
        ELSE IF candidates = {}
        THEN [err |-> "ValueError: Could not find processor", ret |-> 0, cache |-> cache]
        ELSE [err |-> "none", ret |-> ret, cache |-> (cache_key :> ret) @@ cache]

MAX_INSERT_RATE == 10

\* The greatest of a non-empty set of fractions.
FMax(S) == CHOOSE x \in S : \A y \in S : ~FLess(x, y)

\* int(math.ceil(x))
CeilInt(x) == -((-x.n) \div x.d)

FloorInt(x) == x.n \div x.d

\* determine_bodies(step) of a processor. The step is given by what is read
\* of it: process.throughput, recipe.throughput, the amounts per output of the
\* recipe's non-liquid inputs, and whether recipe.name is a liquid.
determine_bodies_rounding_down(processor, step) ==
    LET item_rates == { FMul(step.recipe_throughput, step.amounts[k]) :
                          k \in 1..Len(step.amounts) }
                      \cup (IF step.name_is_liquid THEN {} ELSE { step.recipe_throughput })
        throughput_per_building ==
            IF item_rates # {} /\ FLess(Whole(MAX_INSERT_RATE), FMax(item_rates))
            THEN FMul(step.recipe_throughput,
                      FDiv(Whole(MAX_INSERT_RATE), FMax(item_rates)))
            ELSE step.recipe_throughput
        buildings == FSub(FDiv(step.throughput, throughput_per_building),
                          Whole(processor.base_buildings))
    IN  Max2(0, FloorInt(FDiv(buildings, Whole(processor.per_body_buildings))))

determine_bodies(processor, step) ==
    LET item_rates == { FMul(step.recipe_throughput, step.amounts[k]) :
                          k \in 1..Len(step.amounts) }
                      \cup (IF step.name_is_liquid THEN {} ELSE { step.recipe_throughput })
        throughput_per_building ==
            IF item_rates # {} /\ FLess(Whole(MAX_INSERT_RATE), FMax(item_rates))
            THEN FMul(step.recipe_throughput,
                      FDiv(Whole(MAX_INSERT_RATE), FMax(item_rates)))
            ELSE step.recipe_throughput
        buildings == FSub(FDiv(step.throughput, throughput_per_building),
                          Whole(processor.base_buildings))
    IN  Max2(0, CeilInt(FDiv(buildings, Whole(processor.per_body_buildings))))

MaxFindCalls == 2   \* find_processor calls for one step

\* layout_process: Processor.find_processor(building, inputs kinds, outputs kinds).
FindProcessor ==
    /\ proc_step # <<>> /\ proc_calls < MaxFindCalls /\ proc_bodies = {}
    /\ IF proc_found = <<>> THEN TRUE ELSE proc_found[1].err = "none"
    /\ LET found == find_processor(MATCH_CACHE, proc_step[1].building,
                                   proc_step[1].inputs, proc_step[1].outputs)
       IN  /\ proc_found' = << [err |-> found.err, ret |-> found.ret] >>
           /\ MATCH_CACHE' = found.cache
    /\ proc_calls' = proc_calls + 1
    /\ UNCHANGED <<proc_step, proc_bodies>>
    /\ UNCHANGED <<bmVars, calcVars, splitVars, layVars, oilVars, modVars, routeVars>>

\* Processor.layout: bodies = self.determine_bodies(step), on the processor found.
DetermineBodies ==
    /\ proc_found # <<>> /\ proc_found[1].err = "none" /\ proc_bodies = {}
    /\ proc_bodies' = { determine_bodies(PROCESSORS[proc_found[1].ret], proc_step[1]) }
    /\ UNCHANGED <<proc_step, MATCH_CACHE, proc_found, proc_calls>>
    /\ UNCHANGED <<bmVars, calcVars, splitVars, layVars, oilVars, modVars, routeVars>>

\* The buildings of the recipes file, and one no processor is registered for.
ProcBuildings == {"furnace", "assembler", "chemical plant", "refinery", "lab",
                  "rocket silo", "centrifuge"}

\* What classify_items can make of a step's inputs and of its outputs.
InputKinds ==
    { InOutKinds(l, b, h) : l \in 0..2, b \in 0..2, h \in 0..3 }
    \cup { InOutKinds(0, 0, h) : h \in {4, 6, 7} }

OutputKinds == { InOutKinds(l, b, h) : l \in {0, 1, 3}, b \in 0..1, h \in 0..1 }

StepThroughputs == { Fraction(1, 2), Whole(15), Fraction(100, 3) }

RecipeThroughputs == { Fraction(3, 4), Whole(5), Fraction(25, 2) }

\* The amounts per output of k non-liquid inputs: all a half, or the first 3.
InputAmounts(k) ==
    { [i \in 1..k |-> IF i = big THEN Whole(3) ELSE Fraction(1, 2)] :
        big \in 0..Min2(k, 1) }

\* A step by what find_processor and determine_bodies read of it.
ProcStep(building, ins, outs, throughput, recipe_throughput, amounts) ==
    [building |-> building, inputs |-> ins, outputs |-> outs,
     throughput |-> throughput, recipe_throughput |-> recipe_throughput,
     amounts |-> amounts,
     name_is_liquid |-> (outs.liquid > 0 /\ outs.belt + outs.halfbelt = 0)]

InitProc ==
    /\ \E b \in ProcBuildings, ins \in InputKinds, outs \in OutputKinds,
          t \in StepThroughputs, rt \in RecipeThroughputs :
          \E am \in InputAmounts(ins.belt + ins.halfbelt) :
              proc_step = << ProcStep(b, ins, outs, t, rt, am) >>
    /\ MATCH_CACHE = <<>> /\ proc_found = <<>> /\ proc_calls = 0 /\ proc_bodies = {}
    /\ BmIdle
    /\ CalcIdle
    /\ SplitIdle
    /\ LayIdle
    /\ OilIdle
    /\ ModIdle
    /\ RouteIdle

NextProc == FindProcessor \/ DetermineBodies

SpecProc == InitProc /\ [][NextProc]_vars


\* The conditions under which a registered processor takes a step.
SideFits(have, need) ==
    /\ have.liquid = need.liquid
    /\ have.belt >= need.belt
    /\ (have.belt - need.belt) + have.halfbelt >= need.halfbelt

Accepts(processor, step) ==
    /\ step.building \in processor.buildings
    /\ SideFits(processor.inputs, step.inputs)
    /\ SideFits(processor.outputs, step.outputs)

\* (unused_slots, underused_slots) of a processor that takes the step.
UnusedSlots(have, need) == (have.belt - need.belt) + have.halfbelt - need.halfbelt

UnderusedSlots(have, need) == Min2(have.belt - need.belt, need.halfbelt)

SlotScore(processor, step) ==
    << UnusedSlots(processor.inputs, step.inputs)
          + UnusedSlots(processor.outputs, step.outputs),
       UnderusedSlots(processor.inputs, step.inputs)
          + UnderusedSlots(processor.outputs, step.outputs) >>

Accepting(step) == { i \in 1..Len(PROCESSORS) : Accepts(PROCESSORS[i], step) }

\* C22: find_processor raises exactly when no registered processor accepts
\* the building and fits both sides; otherwise it returns one that does and
\* whose score (unused_slots, underused_slots) is least among those that do.
ProcessorMatching ==
    proc_found # <<>> =>
        LET step == proc_step[1]
            found == proc_found[1]
        IN  IF Accepting(step) = {} THEN found.err # "none"
            ELSE /\ found.err = "none"
                 /\ found.ret \in Accepting(step)
                 /\ \A j \in Accepting(step) :
                       ~ScoreLess(SlotScore(PROCESSORS[j], step),
                                  SlotScore(PROCESSORS[found.ret], step))

\* A step that two processors accept has twice been given the one with score
\* (0, 0).
ProcessorMatchingWitness ==
    /\ proc_calls = 2
    /\ proc_found[1].err = "none"
    /\ Cardinality(Accepting(proc_step[1])) >= 2
    /\ SlotScore(PROCESSORS[proc_found[1].ret], proc_step[1]) = <<0, 0>>

\* The amounts per output that go through inserters: the non-liquid inputs,
\* and 1 for the output unless it is a liquid.
InsertedAmounts(step) ==
    { step.amounts[k] : k \in 1..Len(step.amounts) }
    \cup (IF step.name_is_liquid THEN {} ELSE { Whole(1) })

\* The per-building throughput at which no inserted rate exceeds the cap.
CappedThroughput(step) ==
    IF InsertedAmounts(step) = {} THEN step.recipe_throughput
    ELSE LET cap == FDiv(Whole(MAX_INSERT_RATE), FMax(InsertedAmounts(step)))
         IN  IF FLess(cap, step.recipe_throughput) THEN cap ELSE step.recipe_throughput

BuildingsNeeded(step) == FDiv(step.throughput, CappedThroughput(step))

\* C23: determine_bodies returns the least n >= 0 with
\* base_buildings + n * per_body_buildings >= buildings_needed.
BodyCount ==
    \A n \in proc_bodies :
        LET processor == PROCESSORS[proc_found[1].ret]
            needed == BuildingsNeeded(proc_step[1])
        IN  /\ n >= 0
            /\ ~FLess(Whole(processor.base_buildings + n * processor.per_body_buildings),
                      needed)
            /\ n > 0 =>
                 FLess(Whole(processor.base_buildings
                                + (n - 1) * processor.per_body_buildings),
                       needed)

\* Several bodies were needed for a step whose buildings are slowed down to
\* the insert cap, with a number of buildings that is no multiple of the body.
BodyCountWitness ==
    \E n \in proc_bodies :
        /\ n >= 2
        /\ FLess(CappedThroughput(proc_step[1]), proc_step[1].recipe_throughput)
        /\ FLess(BuildingsNeeded(proc_step[1]),
                 Whole(n * PROCESSORS[proc_found[1].ret].per_body_buildings))

-----------------------------------------------------------------------------
(* layouter.py: the in/out lines of one step on a wide bus *)

MaxRouteWidth == 9   \* longest bus the routed steps are placed on

\* The step's inputs, left to right on the bus: science packs, one of which
\* may be replaced by a liquid.
RouteItem(rank, liquid) == IF rank = liquid THEN "water" ELSE SciencePacks[rank]

RankIn(P, p) == Cardinality({ q \in P : q < p }) + 1

\* A bus of w lines with the step's inputs at the indexes P; the other
\* indexes carry a line of another item or (never at the right end) nothing.
RouteBus(w, P, liquid, ends, gaps) ==
    [ i \in 1..w |->
        IF (i - 1) \in P
        THEN Line(RouteItem(RankIn(P, i - 1), liquid), IF ends THEN 15 ELSE 30)
        ELSE IF gaps /\ i < w THEN NoLine
        ELSE Line("copper plate", 30) ]

RouteOutputs == { EmptyMap, ("iron gear wheel" :> 15), ("sulfuric acid" :> 15) }

RouteStep(P, liquid, outs) ==
    Step("routed",
         [ item \in { RouteItem(k, liquid) : k \in 1..Cardinality(P) } |-> 15 ],
         outs)

\* layout_step's call of layout_in_outs for a Placement; route_out keeps
\* what it returned or that it raised.
LayoutInOuts ==
    /\ route_step # <<>>
    /\ route_out = <<>>
    /\ route_out' = << layout_in_outs(route_step[1]) >>
    /\ UNCHANGED <<route_step, bmVars, calcVars, splitVars, layVars, oilVars, modVars,
                   procVars>>

InitRoute ==
    /\ \E w \in 1..MaxRouteWidth, ends \in BOOLEAN, gaps \in BOOLEAN,
          outs \in RouteOutputs :
          \E P \in SUBSET (0..(w - 1)) :
              /\ P # {}
              /\ Cardinality(P) <= 7
              /\ \E liquid \in {0, 1, Cardinality(P)} :
                    /\ add_step(RouteBus(w, P, liquid, ends, gaps),
                                RouteStep(P, liquid, outs)).err = "none"
                    /\ route_step =
                          << add_step(RouteBus(w, P, liquid, ends, gaps),
                                      RouteStep(P, liquid, outs)).event >>
    /\ route_out = <<>>
    /\ BmIdle
    /\ CalcIdle
    /\ SplitIdle
    /\ LayIdle
    /\ OilIdle
    /\ ModIdle
    /\ ProcIdle

NextRoute == LayoutInOuts

SpecRoute == InitRoute /\ [][NextRoute]_vars

\* The bus indexes with an on-ramp or an off-ramp of the step.
Ramps(ev) == DOMAIN ev.inputs \cup DOMAIN ev.outputs

\* The in/out lines of a Placement: [index, y_slot, item, kind].
RoutedLines(ev) ==
    { [index |-> i, y_slot |-> ev.inputs[i], item |-> ev.bus[i + 1].item,
       kind |-> "input"] : i \in DOMAIN ev.inputs }
    \cup
    { [index |-> i, y_slot |-> ev.outputs[i].y_slot, item |-> ev.outputs[i].item,
       kind |-> "output"] : i \in DOMAIN ev.outputs }

IsUnderground(e) == e.name \in {"underground_belt", "underground_pipe"}

\* The columns where the line enters or leaves the ground on its y_slot: at
\* its ramp, at its surfacing points and in the padding.
GroundColumns(ents, line) ==
    { e.x : e \in { u \in ents :
                      /\ IsUnderground(u)
                      /\ u.y = line.y_slot
                      /\ u.part[2] = line.index
                      /\ u.part[1] \in (IF line.kind = "input"
                                        THEN {"input", "input line"}
                                        ELSE {"output", "output line"}) } }

\* The underground runs of the line, left to right: the tiles strictly
\* between an odd-numbered ground column and the next column.
UndergroundRuns(ents, line) ==
    LET cols == GroundColumns(ents, line)
    IN  { [from |-> x,
           to |-> CHOOSE x2 \in cols : x2 > x /\ \A x3 \in cols : x3 > x => x2 <= x3,
           last |-> Cardinality({ x3 \in cols : x3 > x }) <= 2]
          : x \in { c \in cols :
                      /\ Cardinality({ x3 \in cols : x3 < c }) % 2 = 0
                      /\ \E x2 \in cols : x2 > c } }

RunLength(run) == run.to - run.from - 1

\* The bus indexes where the line surfaces between its ramp and the padding.
SurfacingIndexes(ents, line) ==
    { e.part[3] : e \in { u \in ents :
                            /\ Len(u.part) = 3
                            /\ u.part[2] = line.index
                            /\ u.part[1] = (IF line.kind = "input" THEN "input line"
                                            ELSE "output line") } }

\* C24: every underground run of a routed in/out line spans at most 8 tiles,
\* or 9 for the last run of a pipe when the padding is 2 columns; every ground
\* column is paired; and no line surfaces on a bus index that has a ramp.
UndergroundReach ==
    (route_out # <<>> /\ route_out[1].err = "none") =>
        \A line \in RoutedLines(route_step[1]) :
            LET ents == route_out[1].ents
                ev == route_step[1]
            IN  /\ Cardinality(GroundColumns(ents, line)) % 2 = 0
                /\ GroundColumns(ents, line) # {}
                /\ \A run \in UndergroundRuns(ents, line) :
                      \/ RunLength(run) \in 0..8
                      \/ /\ RunLength(run) = 9
                         /\ is_liquid(line.item)
                         /\ Padding(ev.width) = 2
                         /\ run.last
                /\ SurfacingIndexes(ents, line) \cap Ramps(ev) = {}

\* A routed step with a belt that surfaces on its way under other ramps and
\* has a run of 8 tiles, and a pipe whose last run is 9 tiles.
UndergroundReachWitness ==
    /\ route_out # <<>>
    /\ route_out[1].err = "none"
    /\ \E line \in RoutedLines(route_step[1]) :
          /\ ~is_liquid(line.item)
          /\ SurfacingIndexes(route_out[1].ents, line) # {}
          /\ \E i \in Ramps(route_step[1]) :
                \E s \in SurfacingIndexes(route_out[1].ents, line) :
                    line.index < i /\ i < s
          /\ \E run \in UndergroundRuns(route_out[1].ents, line) : RunLength(run) = 8
    /\ \E line \in RoutedLines(route_step[1]) :
          /\ is_liquid(line.item)
          /\ \E run \in UndergroundRuns(route_out[1].ents, line) : RunLength(run) = 9

\* The n bus indexes after s all have a ramp of the step.
Occupied(ev, s, n) == \A d \in 1..n : (s + d) \in Ramps(ev)

\* Some n consecutive bus indexes after `from` all have a ramp.
Blocked(ev, from, n) == \E s \in from..ev.width : Occupied(ev, s, n)

RouteRaised == route_out # <<>> /\ route_out[1].err # "none"

-----------------------------------------------------------------------------
(* Roboport rows *)

\* The x of the centres of the roboports in a placed roboport row.
RoboportCentres(sub) == { e.x + 2 : e \in { r \in sub.ents : r.name = "roboport" } }

\* C26: every roboport row has at least one roboport with a radar, the first
\* roboport centred at x = 50 and the others every 50 tiles until the maximum
\* width is within construction range of the last one.
RoboportRowManned ==
    LayoutReturned =>
        \A k \in 1..Len(placed) :
            placed[k].name = "roboports" =>
                LET centres == RoboportCentres(placed[k])
                    n == Cardinality(centres)
                IN  /\ n >= 1
                    /\ centres = { i * LOGISTIC_AREA : i \in 1..n }
                    /\ Cardinality({ e \in placed[k].ents : e.name = "radar" }) = n
                    /\ n * LOGISTIC_AREA + CONSTRUCT_AREA \div 2 >= max_width
                    /\ n > 1 =>
                         (n - 1) * LOGISTIC_AREA + CONSTRUCT_AREA \div 2 < max_width

-----------------------------------------------------------------------------
(* BeltManager.run to its end *)

\* BeltManager(steps, inputs, belt_type): __init__ copies the steps and makes
\* the bus from the raw inputs.
Construct ==
    /\ BmIdle
    /\ \E r \in BusRuns :
          /\ raw_inputs' = r.raw
          /\ bus' = r.raw
          /\ pending' = r.steps
          /\ output' = <<>>
          /\ belt_type' = r.bt
          /\ err' = "none"
    /\ UNCHANGED <<calcVars, splitVars, layVars, oilVars, modVars, procVars, routeVars>>

\* Before any belt manager is made.
InitRun ==
    /\ BmIdle
    /\ CalcIdle
    /\ SplitIdle
    /\ LayIdle
    /\ OilIdle
    /\ ModIdle
    /\ ProcIdle
    /\ RouteIdle

NextRun == Construct \/ do_one

\* run() keeps calling do_one while pending is not empty: a call that can be
\* made is made.
SpecRun == InitRun /\ [][NextRun]_vars /\ WF_vars(do_one)

\* How often step s is still pending or has its Placement in the output.
Accounted(s) ==
    Cardinality({ k \in 1..Len(pending) : pending[k] = s })
    + Cardinality({ k \in Placements : output[k].process = s })

KnownSteps ==
    { pending[k] : k \in 1..Len(pending) } \cup { output[k].process : k \in Placements }

\* Every do_one that does not raise keeps each step either pending or placed
\* once.
StepsKept ==
    err' = "none" => \A s \in KnownSteps : Accounted(s)' = Accounted(s)

\* C27: run() ends: after finitely many do_one calls pending is empty or the
\* run has raised, and as long as nothing raised every initial step is either
\* still pending or has exactly one Placement in the output.
Termination ==
    /\ output = <<>>
    /\ [][StepsKept]_vars
    /\ Running ~> ~Running

\* run() returned after two Placements with a Compaction between them.
TerminationWitness ==
    /\ Completed
    /\ Cardinality(Placements) = 2
    /\ \E k \in 1..Len(output) :
          /\ output[k].type = "Compaction"
          /\ \E i \in Placements : i < k
          /\ \E j \in Placements : k < j

-----------------------------------------------------------------------------
(* The lines on the bus *)

\* C28: with raw inputs and step rates positive and within the line limit,
\* every line on the bus carries more than 0 and at most the line limit of
\* its item, and line_take never raises.
LineBounds ==
    /\ \A i \in 1..Len(bus) :
          bus[i] # NoLine =>
              /\ bus[i].throughput > 0
              /\ bus[i].throughput <= line_limit(bus[i].item, belt_type)
    /\ err \notin {"ValueError: taking from empty line", "ValueError: took too much"}

\* A line filled to the limit by a compaction, next to the rest of the line
\* that was merged into it, after a step has taken part of another line.
LineBoundsWitness ==
    /\ err = "none"
    /\ \E i \in 1..Len(bus) :
          /\ bus[i] # NoLine
          /\ bus[i].throughput = line_limit(bus[i].item, belt_type)
          /\ \E j \in (i + 1)..Len(bus) :
                /\ bus[j] # NoLine
                /\ bus[j].item = bus[i].item
                /\ bus[j].throughput < bus[i].throughput
    /\ \E k \in 1..Len(output) :
          /\ output[k].type = "Compaction"
          /\ \E c \in 1..Len(output[k].compactions) :
                output[k].bus[output[k].compactions[c][1] + 1].throughput
                  + output[k].bus[output[k].compactions[c][2] + 1].throughput
                  > line_limit(output[k].bus[output[k].compactions[c][1] + 1].item,
                               belt_type)
    /\ Placements # {}

-----------------------------------------------------------------------------
(* What the bus carries of each item *)

\* The throughput of `item` on the lines of b.
Carried(b, item) ==
    SumOver(1..Len(b),
            [i \in 1..Len(b) |->
               IF b[i] # NoLine /\ b[i].item = item THEN b[i].throughput ELSE 0])

RateOf(io, item) == IF item \in DOMAIN io THEN io[item] ELSE 0

\* What the placed steps make of `item`, less what they take of it.
PlacedNet(item) ==
    SumOver(Placements,
            [k \in Placements |->
               RateOf(output[k].process.outs, item) - RateOf(output[k].process.ins, item)])

Balanced == \A item \in Range(ItemNames) :
                Carried(bus, item) = Carried(raw_inputs, item) + PlacedNet(item)

-----------------------------------------------------------------------------
(* A Compaction event as the layouter reads it *)

\* layout_compaction's right_ends for the compaction (left, right) of event
\* ev. The source calls line_limit(item) without the belt type; bt is the belt
\* type main hands to layout, while main makes the BeltManager without one
\* (so it uses 'blue').
right_ends(ev, left, right, bt) ==
    ev.bus[left + 1].throughput + ev.bus[right + 1].throughput
        <= line_limit(ev.bus[left + 1].item, bt)

\* The belt manager took the branch that ends the right line: the source
\* line is gone from the bus after the event.
SourceEnded(k, right) ==
    \/ right + 1 > Len(BusAfter(k))
    \/ BusAfter(k)[right + 1] = NoLine

\* The bus indexes named by the event's compactions and shifts, with
\* repetitions.
PairIndexes(ev) ==
    [ i \in 1..(2 * Len(ev.compactions)) |->
        ev.compactions[(i + 1) \div 2][2 - (i % 2)] ]
    \o [ i \in 1..(2 * Len(ev.shifts)) |-> ev.shifts[(i + 1) \div 2][2 - (i % 2)] ]

IndexesDistinct(ev) ==
    \A i, j \in 1..Len(PairIndexes(ev)) :
        i # j => PairIndexes(ev)[i] # PairIndexes(ev)[j]

\* C30: in a Compaction event no bus index occurs in two pairs, and for every
\* recorded compaction the layouter's right_ends, whatever belt type the
\* program is run with, is the branch the belt manager (made by main, on blue
\* belts) took.
CompactionConsistency ==
    belt_type = "blue" =>
        \A k \in 1..Len(output) :
            (output[k].type = "Compaction" /\ k \in SettledEvents) =>
                /\ IndexesDistinct(output[k])
                /\ \A c \in 1..Len(output[k].compactions) :
                      \A bt \in BeltTypes :
                          right_ends(output[k], output[k].compactions[c][1],
                                     output[k].compactions[c][2], bt)
                            <=> SourceEnded(k, output[k].compactions[c][2])

====
